---------------------------- MODULE Spec2Model ----------------------------
(***************************************************************************)
(* Verification model of the DRM trust-and-key core of vidwall:            *)
(*   - drm/core Reader (byte cursor)                                       *)
(*   - drm/playready-format BCert chain parser and accessors               *)
(*   - drm/playready crypto (ElGamal and ECDSA over P-256)                 *)
(*   - chain-of-trust verification and license key unwrap                  *)
(*   - drm/playready-format key-ID conversions of the WRM header           *)
(* and of its playback side:                                               *)
(*   - vidproxy PipelineManager (tasks interleaved at the state mutex)     *)
(*   - ffmpeg/types WallClock and AudioClock (threads interleaved at each  *)
(*     lock acquisition and atomic access)                                 *)
(* The curve library is modelled by a short-Weierstrass curve of prime     *)
(* order over a small prime field; every group operation is computed.      *)
(***************************************************************************)
EXTENDS Integers, Sequences, FiniteSets, TLC

VARIABLES
    rd,      \* drm/core Reader under test: [data, pos]
    rdLast,  \* the last Reader operation and its outcome
    bc,      \* BCertChain::from_bytes in progress: input, cursor, certificates
    cr,      \* the last call of crypto/elgamal.rs or crypto/signing.rs
    sg,      \* the last two calls of ecdsa_sha256_sign
    rng,     \* the scalar the system random source yields next
    vc,      \* verify_chain in progress
    lic,     \* derive_and_unwrap in progress
    wrm,     \* the last call of the key-ID conversions of wrm_header.rs
    pm,      \* vidproxy PipelineManager, its callers and its pipeline task
    wc,      \* ffmpeg WallClock and the threads calling it
    ac       \* ffmpeg AudioClock and the threads calling it

vars == <<rd, rdLast, bc, cr, sg, rng, vc, lic, wrm, pm, wc, ac>>

\* what the actions of one component leave alone
notReader == <<bc, cr, sg, rng, vc, lic, wrm, pm, wc, ac>>

notBCert == <<rd, rdLast, cr, sg, rng, vc, lic, wrm, pm, wc, ac>>

notCrypto == <<rd, rdLast, bc, sg, rng, vc, lic, wrm, pm, wc, ac>>

notSign == <<rd, rdLast, bc, cr, vc, lic, wrm, pm, wc, ac>>

notChain == <<rd, rdLast, bc, cr, sg, rng, lic, wrm, pm, wc, ac>>

notLicense == <<rd, rdLast, bc, cr, sg, rng, vc, wrm, pm, wc, ac>>

notWrm == <<rd, rdLast, bc, cr, sg, rng, vc, lic, pm, wc, ac>>

notPipeline == <<rd, rdLast, bc, cr, sg, rng, vc, lic, wrm, wc, ac>>

notWallClock == <<rd, rdLast, bc, cr, sg, rng, vc, lic, wrm, pm, ac>>

notAudioClock == <<rd, rdLast, bc, cr, sg, rng, vc, lic, wrm, pm, wc>>

\* ------------------------------------------------------------------------
\* Generic helpers
\* ------------------------------------------------------------------------

Min(a, b) == IF a <= b THEN a ELSE b

\* bytes[from..to) of a 0-indexed Rust slice, as a 1-indexed sequence
Slice(s, from, to) == SubSeq(s, from + 1, to)

Ok(v) == [ok |-> TRUE, val |-> v]

Err(e) == [ok |-> FALSE, err |-> e]

\* F applied to the value of v, v evaluated once (`let x = v; F(x)`)
Let(v, F(_)) == CHOOSE y \in {F(x) : x \in {v}} : TRUE

\* ------------------------------------------------------------------------
\* drm/core/src/reader.rs : Reader
\* ------------------------------------------------------------------------

\* bound: longest byte slice handed to the Reader specification
MaxData == 4

\* bound: largest length argument n tried by Ensure / ReadBytes / padded string
MaxReq == 5

\* byte values used to build the Reader inputs: NUL, "h" and 0x7F (the top
\* byte of a u32 stays below 0x80 so that every value fits the checker's
\* integers)
ReaderBytes == {0, 104, 127}

ReadError(needed, have) == [kind |-> "UnexpectedEndOfData", needed |-> needed, have |-> have]

NewReader(data) == [data |-> data, pos |-> 0]

\* self.data.len().saturating_sub(self.pos)
remaining(r) == IF Len(r.data) >= r.pos THEN Len(r.data) - r.pos ELSE 0

ensure_off_by_one(r, n) ==
    IF remaining(r) + 1 < n
    THEN Err(ReadError(r.pos + n, Len(r.data)))
    ELSE Ok(TRUE)

ensure(r, n) ==
    IF remaining(r) < n
    THEN Err(ReadError(r.pos + n, Len(r.data)))
    ELSE Ok(TRUE)

\* result of a read: [ok, val | err, r] where r is the reader afterwards
read_bytes(r, n) ==
    Let(ensure(r, n), LAMBDA e :
    IF ~e.ok
    THEN [ok |-> FALSE, err |-> e.err, r |-> r]
    ELSE [ok |-> TRUE,
          val |-> IF r.pos + n <= Len(r.data)
                  THEN Slice(r.data, r.pos, r.pos + n)
                  ELSE <<"out-of-bounds">>,
          r |-> [r EXCEPT !.pos = r.pos + n]])

read_array(r, N) == read_bytes(r, N)

from_be_bytes(b) ==
    IF Len(b) = 2 THEN b[1] * 256 + b[2]
    ELSE b[1] * 16777216 + b[2] * 65536 + b[3] * 256 + b[4]

from_le_bytes(b) ==
    IF Len(b) = 2 THEN b[2] * 256 + b[1]
    ELSE b[4] * 16777216 + b[3] * 65536 + b[2] * 256 + b[1]

MapVal(res, F(_)) ==
    Let(res, LAMBDA x : IF x.ok THEN [x EXCEPT !.val = F(x.val)] ELSE x)

read_u16be(r) == MapVal(read_array(r, 2), from_be_bytes)

read_u32be(r) == MapVal(read_array(r, 4), from_be_bytes)

read_u16le(r) == MapVal(read_array(r, 2), from_le_bytes)

read_u32le(r) == MapVal(read_array(r, 4), from_le_bytes)

\* (raw_len + 3) & !3
Aligned_unrounded(raw_len) == raw_len

Aligned(raw_len) == ((raw_len + 3) \div 4) * 4

\* bytes.iter().position(|&b| b == 0), as a 0-based index or -1
NulPosition(bytes) ==
    IF \E i \in 1..Len(bytes) : bytes[i] = 0
    THEN (CHOOSE i \in 1..Len(bytes) :
              bytes[i] = 0 /\ \A j \in 1..(i - 1) : bytes[j] # 0) - 1
    ELSE -1

\* String::from_utf8_lossy: every byte that is not valid UTF-8 on its own
\* becomes U+FFFD (65533); the inputs here hold no multi-byte sequences
from_utf8_lossy(bytes) ==
    [i \in 1..Len(bytes) |-> IF bytes[i] < 128 THEN bytes[i] ELSE 65533]

read_padded_string(r, raw_len) ==
    Let(read_bytes(r, Aligned(raw_len)), LAMBDA b :
        IF ~b.ok THEN b
        ELSE Let(NulPosition(b.val), LAMBDA p :
                 [b EXCEPT !.val = from_utf8_lossy(Slice(b.val, 0,
                     IF p >= 0 THEN p ELSE Min(raw_len, Aligned(raw_len))))]))

\* ------------------------------------------------------------------------
\* drm/playready-format/src/bcert.rs : private Reader of the BCert parser
\* ------------------------------------------------------------------------

UnexpectedEof(needed, have) == [kind |-> "UnexpectedEof", needed |-> needed, have |-> have]

InvalidMagic(expected, got) == [kind |-> "InvalidMagic", expected |-> expected, got |-> got]

b_ensure(r, n) ==
    IF remaining(r) < n
    THEN Err(UnexpectedEof(r.pos + n, Len(r.data)))
    ELSE Ok(TRUE)

b_read_bytes(r, n) ==
    Let(b_ensure(r, n), LAMBDA e :
    IF ~e.ok
    THEN [ok |-> FALSE, err |-> e.err, r |-> r]
    ELSE [ok |-> TRUE,
          val |-> IF r.pos + n <= Len(r.data)
                  THEN Slice(r.data, r.pos, r.pos + n)
                  ELSE <<"out-of-bounds">>,
          r |-> [r EXCEPT !.pos = r.pos + n]])

b_read_u16be(r) == MapVal(b_read_bytes(r, 2), from_be_bytes)

b_read_u32be(r) == MapVal(b_read_bytes(r, 4), from_be_bytes)

b_read_array(r, N) == b_read_bytes(r, N)

b_read_padded_string(r, raw_len) ==
    Let(b_read_bytes(r, Aligned(raw_len)), LAMBDA b :
        IF ~b.ok THEN b
        ELSE Let(NulPosition(b.val), LAMBDA p :
                 [b EXCEPT !.val = from_utf8_lossy(Slice(b.val, 0,
                     IF p >= 0 THEN p ELSE Min(raw_len, Aligned(raw_len))))]))

\* One field read of a typed decoder; kinds: <<"u16">>, <<"u32">>,
\* <<"arr", N>> and <<"str">> (a u32 length followed by a padded string).
ReadField(r, f) ==
    CASE f[1] = "u16" -> b_read_u16be(r)
      [] f[1] = "u32" -> b_read_u32be(r)
      [] f[1] = "arr" -> b_read_array(r, f[2])
      [] f[1] = "str" -> Let(b_read_u32be(r), LAMBDA l :
                             IF ~l.ok THEN l ELSE b_read_padded_string(l.r, l.val))

\* The reads of a decoder in order, each followed by `?`: the first failure
\* is the result, otherwise the values read.
RECURSIVE ReadFields(_, _, _)
ReadFields(r, fields, acc) ==
    IF fields = <<>> THEN [ok |-> TRUE, val |-> acc, r |-> r]
    ELSE Let(ReadField(r, Head(fields)), LAMBDA x :
             IF ~x.ok THEN x
             ELSE Let(Append(acc, x.val), LAMBDA acc2 :
                      ReadFields(x.r, Tail(fields), acc2)))

\* n reads of a big-endian u32
RECURSIVE ReadU32s(_, _, _)
ReadU32s(r, n, acc) ==
    IF n = 0 THEN [ok |-> TRUE, val |-> acc, r |-> r]
    ELSE Let(b_read_u32be(r), LAMBDA x :
             IF ~x.ok THEN x
             ELSE Let(Append(acc, x.val), LAMBDA acc2 : ReadU32s(x.r, n - 1, acc2)))

Decoded(res, F(_)) ==
    Let(res, LAMBDA x : IF x.ok THEN Ok(F(x.val)) ELSE Err(x.err))

\* ------------------------------------------------------------------------
\* bcert.rs : attribute data parsers
\* ------------------------------------------------------------------------

BasicOf(v) ==
    [kind |-> "Basic", cert_id |-> v[1], security_level |-> v[2], flags |-> v[3],
     cert_type |-> v[4], public_key_digest |-> v[5], expiration_date |-> v[6],
     client_id |-> v[7]]

parse_basic(data) ==
    Decoded(ReadFields(NewReader(data),
        << <<"arr", 16>>, <<"u32">>, <<"u32">>, <<"u32">>, <<"arr", 32>>, <<"u32">>,
           <<"arr", 16>> >>, <<>>), BasicOf)

DomainOf(v) ==
    [kind |-> "Domain", service_id |-> v[1], account_id |-> v[2],
     revision_timestamp |-> v[3], domain_url |-> v[4]]

parse_domain(data) ==
    Decoded(ReadFields(NewReader(data),
        << <<"arr", 16>>, <<"arr", 16>>, <<"u32">>, <<"str">> >>, <<>>), DomainOf)

PcOf(v) == [kind |-> "Pc", security_version |-> v[1]]

parse_pc(data) == Decoded(ReadFields(NewReader(data), << <<"u32">> >>, <<>>), PcOf)

DeviceOf(v) ==
    [kind |-> "Device", max_license |-> v[1], max_header |-> v[2], max_chain_depth |-> v[3]]

parse_device(data) ==
    Decoded(ReadFields(NewReader(data), << <<"u32">>, <<"u32">>, <<"u32">> >>, <<>>),
            DeviceOf)

FeatureOf(v) == [kind |-> "Feature", features |-> v]

parse_feature(data) ==
    Let(b_read_u32be(NewReader(data)), LAMBDA c :
        IF ~c.ok THEN Err(c.err)
        ELSE Decoded(ReadU32s(c.r, Min(c.val, 32), <<>>), FeatureOf))

\* one CertKey of a KeyInfo attribute
ReadCertKey(r) ==
    Let(ReadFields(r, << <<"u16">>, <<"u16">>, <<"u32">> >>, <<>>), LAMBDA h :
        IF ~h.ok THEN h
        ELSE Let(b_read_bytes(h.r, h.val[2] \div 8), LAMBDA k :
             IF ~k.ok THEN k
             ELSE Let(b_read_u32be(k.r), LAMBDA c :
                  IF ~c.ok THEN c
                  ELSE Let(ReadU32s(c.r, c.val, <<>>), LAMBDA u :
                       IF ~u.ok THEN u
                       ELSE [ok |-> TRUE, r |-> u.r,
                             val |-> [key_type |-> h.val[1], key |-> k.val,
                                      flags |-> h.val[3], usages |-> u.val]]))))

RECURSIVE ReadCertKeys(_, _, _)
ReadCertKeys(r, n, acc) ==
    IF n = 0 THEN [ok |-> TRUE, val |-> acc, r |-> r]
    ELSE Let(ReadCertKey(r), LAMBDA x :
             IF ~x.ok THEN x
             ELSE Let(Append(acc, x.val), LAMBDA acc2 : ReadCertKeys(x.r, n - 1, acc2)))

KeyOf(v) == [kind |-> "Key", keys |-> v]

parse_key(data) ==
    Let(b_read_u32be(NewReader(data)), LAMBDA c :
        IF ~c.ok THEN Err(c.err)
        ELSE Decoded(ReadCertKeys(c.r, c.val, <<>>), KeyOf))

ManufacturerOf(v) ==
    [kind |-> "Manufacturer", flags |-> v[1], name |-> v[2], model_name |-> v[3],
     model_number |-> v[4]]

parse_manufacturer(data) ==
    Decoded(ReadFields(NewReader(data),
        << <<"u32">>, <<"str">>, <<"str">>, <<"str">> >>, <<>>), ManufacturerOf)

parse_signature(data) ==
    Let(ReadFields(NewReader(data), << <<"u16">>, <<"u16">> >>, <<>>), LAMBDA h :
        IF ~h.ok THEN Err(h.err)
        ELSE Let(b_read_bytes(h.r, h.val[2]), LAMBDA s :
             IF ~s.ok THEN Err(s.err)
             ELSE Let(b_read_u32be(s.r), LAMBDA b :
                  IF ~b.ok THEN Err(b.err)
                  ELSE Let(b_read_bytes(b.r, b.val \div 8), LAMBDA k :
                       IF ~k.ok THEN Err(k.err)
                       ELSE Ok([kind |-> "Signature",
                                signature_type |-> h.val[1],
                                signature |-> s.val,
                                signing_key |-> k.val])))))

SilverlightOf(v) ==
    [kind |-> "Silverlight", security_version |-> v[1], platform_identifier |-> v[2]]

parse_silverlight(data) ==
    Decoded(ReadFields(NewReader(data), << <<"u32">>, <<"u32">> >>, <<>>), SilverlightOf)

MeteringOf(v) == [kind |-> "Metering", metering_id |-> v[1], metering_url |-> v[2]]

parse_metering(data) ==
    Decoded(ReadFields(NewReader(data), << <<"arr", 16>>, <<"str">> >>, <<>>), MeteringOf)

parse_ext_data_sign_key(data) ==
    Let(ReadFields(NewReader(data), << <<"u16">>, <<"u16">>, <<"u32">> >>, <<>>), LAMBDA h :
        IF ~h.ok THEN Err(h.err)
        ELSE Let(b_read_bytes(h.r, h.val[2] \div 8), LAMBDA k :
             IF ~k.ok THEN Err(k.err)
             ELSE Ok([kind |-> "ExtDataSignKey", key_type |-> h.val[1],
                      flags |-> h.val[3], key |-> k.val])))

ServerOf(v) == [kind |-> "Server", warning_days |-> v[1]]

parse_server(data) == Decoded(ReadFields(NewReader(data), << <<"u32">> >>, <<>>), ServerOf)

SecurityVersionOf(v) ==
    [kind |-> "SecurityVersion", security_version |-> v[1], platform_identifier |-> v[2]]

parse_security_version(data) ==
    Decoded(ReadFields(NewReader(data), << <<"u32">>, <<"u32">> >>, <<>>),
            SecurityVersionOf)

\* ------------------------------------------------------------------------
\* bcert.rs : BCertAttribute::parse, BCert::parse
\* ------------------------------------------------------------------------

\* AttributeTag::try_from and the dispatch on it; tags 0x000C..0x000E are
\* known tags without a decoder and fall to the opaque arm with unknown tags
AttributeData_strict(tag, data_bytes) ==
    IF tag \in 1..17 THEN Ok([kind |-> "Unknown", bytes |-> data_bytes])
    ELSE Err([kind |-> "InvalidEnumValue", value |-> tag])

AttributeData(tag, data_bytes) ==
    CASE tag = 1  -> parse_basic(data_bytes)
      [] tag = 2  -> parse_domain(data_bytes)
      [] tag = 3  -> parse_pc(data_bytes)
      [] tag = 4  -> parse_device(data_bytes)
      [] tag = 5  -> parse_feature(data_bytes)
      [] tag = 6  -> parse_key(data_bytes)
      [] tag = 7  -> parse_manufacturer(data_bytes)
      [] tag = 8  -> parse_signature(data_bytes)
      [] tag = 9  -> parse_silverlight(data_bytes)
      [] tag = 10 -> parse_metering(data_bytes)
      [] tag = 11 -> parse_ext_data_sign_key(data_bytes)
      [] tag = 15 -> parse_server(data_bytes)
      [] tag \in {16, 17} -> parse_security_version(data_bytes)
      [] OTHER -> Ok([kind |-> "Unknown", bytes |-> data_bytes])

BCertAttribute_parse(r) ==
    Let(ReadFields(r, << <<"u16">>, <<"u16">>, <<"u32">> >>, <<>>), LAMBDA h :
        IF ~h.ok THEN h
        ELSE Let(b_read_bytes(h.r, IF h.val[3] >= 8 THEN h.val[3] - 8 ELSE 0), LAMBDA d :
             IF ~d.ok THEN d
             ELSE Let(AttributeData(h.val[2], d.val), LAMBDA data :
                  IF ~data.ok THEN [ok |-> FALSE, err |-> data.err, r |-> d.r]
                  ELSE [ok |-> TRUE, r |-> d.r,
                        val |-> [flags |-> h.val[1], tag |-> h.val[2],
                                 data |-> data.val,
                                 \* ghost: byte range the attribute was read from
                                 from |-> r.pos, to |-> d.r.pos]])))

\* while r.pos < cert_end && r.remaining() >= 8 { attributes.push(parse(r)?) }
RECURSIVE ParseAttributes(_, _, _)
ParseAttributes(r, cert_end, acc) ==
    IF r.pos < cert_end /\ remaining(r) >= 8
    THEN Let(BCertAttribute_parse(r), LAMBDA a :
             IF ~a.ok THEN a
             ELSE Let(Append(acc, a.val), LAMBDA acc2 :
                      ParseAttributes(a.r, cert_end, acc2)))
    ELSE [ok |-> TRUE, val |-> acc, r |-> r]

CHAIN_MAGIC == <<67, 72, 65, 73>>

CERT_MAGIC == <<67, 69, 82, 84>>

RawBytes_to_end(data, cert_start, raw_end) == Slice(data, cert_start, Len(data))

\* the raw bytes BCert::parse retains: data[cert_start .. min(raw_end, len)]
RawBytes(data, cert_start, raw_end) ==
    IF raw_end <= Len(data)
    THEN Slice(data, cert_start, raw_end)
    ELSE Slice(data, cert_start, Len(data))

BCert_parse(r) ==
    Let(b_read_bytes(r, 4), LAMBDA magic :
        IF ~magic.ok THEN magic
        ELSE IF magic.val # CERT_MAGIC
        THEN [ok |-> FALSE, err |-> InvalidMagic("CERT", from_utf8_lossy(magic.val)),
              r |-> magic.r]
        ELSE Let(ReadFields(magic.r, << <<"u32">>, <<"u32">>, <<"u32">> >>, <<>>), LAMBDA h :
             IF ~h.ok THEN h
             ELSE Let(r.pos + h.val[2], LAMBDA cert_end :
                  Let(ParseAttributes(h.r, cert_end, <<>>), LAMBDA attrs :
                      IF ~attrs.ok THEN attrs
                      ELSE [ok |-> TRUE,
                            r |-> [attrs.r EXCEPT !.pos = Min(cert_end, Len(r.data))],
                            val |-> [version |-> h.val[1],
                                     total_length |-> h.val[2],
                                     certificate_length |-> h.val[3],
                                     attributes |-> attrs.val,
                                     raw |-> RawBytes(r.data, r.pos, r.pos + h.val[2]),
                                     \* ghost: offset the certificate started at
                                     start |-> r.pos]]))))

\* ------------------------------------------------------------------------
\* bcert.rs : accessors of BCert
\* ------------------------------------------------------------------------

None == [some |-> FALSE]

Some(v) == [some |-> TRUE, val |-> v]

\* self.certificates.first()
leaf(chain) ==
    IF chain.certificates = <<>> THEN None ELSE Some(Head(chain.certificates))

root_as_first(chain) ==
    IF chain.certificates = <<>> THEN None ELSE Some(Head(chain.certificates))

\* self.certificates.last()
root(chain) ==
    IF chain.certificates = <<>> THEN None
    ELSE Some(chain.certificates[Len(chain.certificates)])

\* iter().find_map(...) over the attributes: the first one of the kind
FirstAttr(cert, kind) ==
    LET idx == {i \in 1..Len(cert.attributes) : cert.attributes[i].data.kind = kind}
    IN  IF idx = {} THEN None
        ELSE Some(cert.attributes[CHOOSE i \in idx : \A j \in idx : i <= j].data)

basic_info(cert) == FirstAttr(cert, "Basic")

key_info(cert) == FirstAttr(cert, "Key")

signature_info(cert) == FirstAttr(cert, "Signature")

Contains(seq, x) == \E i \in 1..Len(seq) : seq[i] = x

\* ki.keys.iter().find(|k| k.usages.contains(&usage)).map(|k| k.key)
FirstKeyWithUsage(keys, usage) ==
    LET idx == {i \in 1..Len(keys) : Contains(keys[i].usages, usage)}
    IN  IF idx = {} THEN None
        ELSE Some(keys[CHOOSE i \in idx : \A j \in idx : i <= j].key)

KeyUsage_Sign == 1

KeyUsage_EncryptKey == 2

signing_key(cert) ==
    LET ki == key_info(cert)
    IN  IF ~ki.some THEN None ELSE FirstKeyWithUsage(ki.val.keys, KeyUsage_Sign)

encryption_key(cert) ==
    LET ki == key_info(cert)
    IN  IF ~ki.some THEN None ELSE FirstKeyWithUsage(ki.val.keys, KeyUsage_EncryptKey)

\* the whole certificate instead of its signed region
signed_bytes_whole(cert) == cert.raw

signed_bytes(cert) ==
    LET end == Min(cert.certificate_length, Len(cert.raw))
    IN  Slice(cert.raw, 0, end)

\* --- the Reader specification: any sequence of operations on one cursor ---

RECURSIVE SeqsUpTo(_, _)
SeqsUpTo(S, n) ==
    IF n = 0 THEN {<<>>}
    ELSE LET shorter == SeqsUpTo(S, n - 1)
         IN  shorter \cup {Append(s, x) : s \in {t \in shorter : Len(t) = n - 1}, x \in S}

ReaderInputs == SeqsUpTo(ReaderBytes, MaxData)

NoOp == [op |-> "none"]

BcIdle == [pc |-> "idle"]

SgIdle == [last |-> NoOp, prev |-> NoOp]

\* the components a specification does not exercise stay as constructed
ReaderIdle == rd = NewReader(<<>>) /\ rdLast = NoOp

BCertIdle == bc = BcIdle

CryptoIdle == cr = NoOp

SignIdle == sg = SgIdle /\ rng = 0

ChainIdle == vc = BcIdle

LicenseIdle == lic = BcIdle

WrmIdle == wrm = NoOp

PipelineIdle == pm = BcIdle

WallClockIdle == wc = BcIdle

AudioClockIdle == ac = BcIdle

\* the components of vidproxy and ffmpeg, as constructed
MediaIdle == PipelineIdle /\ WallClockIdle /\ AudioClockIdle

\* the components of the drm crates, as constructed
DrmIdle ==
    ReaderIdle /\ BCertIdle /\ CryptoIdle /\ SignIdle /\ ChainIdle /\ LicenseIdle /\ WrmIdle

ReaderInit ==
    /\ rd \in {NewReader(d) : d \in ReaderInputs}
    /\ rdLast = NoOp
    /\ BCertIdle /\ CryptoIdle /\ SignIdle /\ ChainIdle /\ LicenseIdle
    /\ WrmIdle /\ MediaIdle

\* record of one operation: what was asked, the cursor before, the outcome
Done(op, n, before, res) ==
    [op |-> op, n |-> n, before |-> before.pos, res |-> [ok |-> res.ok,
      val |-> IF res.ok THEN res.val ELSE <<>>,
      err |-> IF res.ok THEN <<>> ELSE res.err]]

DoEnsure ==
    \E n \in 0..MaxReq :
        /\ rdLast' = Done("ensure", n, rd, ensure(rd, n))
        /\ UNCHANGED rd
        /\ UNCHANGED notReader

DoRead(op, n, res) ==
    \E x \in {res} :
        /\ rdLast' = Done(op, n, rd, x)
        /\ rd' = x.r
        /\ UNCHANGED notReader

DoReadBytes == \E n \in 0..MaxReq : DoRead("read_bytes", n, read_bytes(rd, n))

DoReadArray == \E n \in 0..MaxReq : DoRead("read_array", n, read_array(rd, n))

DoReadU16be == DoRead("read_u16be", 2, read_u16be(rd))

DoReadU16le == DoRead("read_u16le", 2, read_u16le(rd))

DoReadU32be == DoRead("read_u32be", 4, read_u32be(rd))

DoReadU32le == DoRead("read_u32le", 4, read_u32le(rd))

DoReadPaddedString ==
    \E n \in 0..MaxReq :
        DoRead("read_padded_string", n, read_padded_string(rd, n))

ReaderNext ==
    \/ DoEnsure
    \/ DoReadBytes
    \/ DoReadArray
    \/ DoReadU16be
    \/ DoReadU16le
    \/ DoReadU32be
    \/ DoReadU32le
    \/ DoReadPaddedString

SpecReader == ReaderInit /\ [][ReaderNext]_vars

\* --- C10 ---
\* number of bytes an operation has to consume
BytesWanted(l) == IF l.op = "read_padded_string" THEN Aligned(l.n) ELSE l.n

RawReads == {"read_bytes", "read_array"}

IntReads == {"read_u16be", "read_u16le", "read_u32be", "read_u32le"}

\* C10: after any sequence of Reader operations 0 <= pos <= data.len(); an
\* operation that has to read n bytes succeeds exactly when n bytes remain,
\* then advances the position by n and (for read_bytes / read_array) returns
\* data[pos..pos+n]; otherwise it fails with the end-of-data error carrying
\* (needed = pos + n, have = data.len()) and leaves the position alone.
C10_ReaderBounds ==
    /\ 0 <= rd.pos /\ rd.pos <= Len(rd.data)
    /\ rdLast.op # "none" =>
        LET n    == BytesWanted(rdLast)
            have == Len(rd.data) - rdLast.before
        IN  /\ rdLast.res.ok <=> n <= have
            /\ rdLast.res.ok =>
                 /\ rd.pos = rdLast.before + (IF rdLast.op = "ensure" THEN 0 ELSE n)
                 /\ rdLast.op \in RawReads =>
                      rdLast.res.val = Slice(rd.data, rdLast.before, rdLast.before + n)
                 /\ rdLast.op \in {"read_u16be", "read_u32be"} =>
                      rdLast.res.val =
                        from_be_bytes(Slice(rd.data, rdLast.before, rdLast.before + n))
                 /\ rdLast.op \in {"read_u16le", "read_u32le"} =>
                      rdLast.res.val =
                        from_le_bytes(Slice(rd.data, rdLast.before, rdLast.before + n))
            /\ ~rdLast.res.ok =>
                 /\ rd.pos = rdLast.before
                 /\ rdLast.res.err = ReadError(rdLast.before + n, Len(rd.data))

\* a read that failed at the end of the data after an earlier read succeeded
C10_Witness ==
    /\ rdLast.op = "read_u32be"
    /\ ~rdLast.res.ok
    /\ rdLast.before > 0
    /\ rd.pos = rdLast.before

\* the least multiple of 4 that is not below n
RoundUp4(n) == CHOOSE m \in 0..(n + 3) : m % 4 = 0 /\ m >= n

\* C22: a successful read_padded_string(raw_len) advances the cursor by
\* exactly round_up(raw_len, 4) bytes wherever the first NUL is, and when
\* fewer than round_up(raw_len, 4) bytes remain it fails and the cursor does
\* not move
C22_PaddedStringAdvance ==
    rdLast.op = "read_padded_string" =>
        LET have == Len(rd.data) - rdLast.before
        IN  /\ rdLast.res.ok <=> RoundUp4(rdLast.n) <= have
            /\ rdLast.res.ok => rd.pos = rdLast.before + RoundUp4(rdLast.n)
            /\ ~rdLast.res.ok => rd.pos = rdLast.before

\* raw_len = 3 over [h, h, 0, 0] returns "hh" and leaves the cursor at 4
C22_Witness ==
    /\ rdLast.op = "read_padded_string"
    /\ rdLast.n = 3
    /\ rdLast.before = 0
    /\ rd.data = <<104, 104, 0, 0>>
    /\ rdLast.res.ok
    /\ rdLast.res.val = <<104, 104>>
    /\ rd.pos = 4

\* a padded string asked for with too few bytes left, after an earlier read
C22_FailureWitness ==
    /\ rdLast.op = "read_padded_string"
    /\ ~rdLast.res.ok
    /\ rdLast.before > 0
    /\ rdLast.n > 0

\* C23: the string returned by read_padded_string(raw_len) is decoded from
\* the consumed bytes cut at the first NUL or at the declared length,
\* whichever comes first, so it is never longer than raw_len bytes and holds
\* no alignment padding
C23_PaddedStringWithinDeclared ==
    (rdLast.op = "read_padded_string" /\ rdLast.res.ok) =>
        LET declared == Slice(rd.data, rdLast.before, rdLast.before + rdLast.n)
            p        == NulPosition(declared)
        IN  /\ Len(rdLast.res.val) <= rdLast.n
            /\ rdLast.res.val =
                  from_utf8_lossy(Slice(declared, 0, IF p >= 0 THEN p ELSE rdLast.n))

\* a padded string whose first NUL lies in the alignment padding
C23_PaddingReturned ==
    /\ rdLast.op = "read_padded_string"
    /\ rdLast.res.ok
    /\ Len(rdLast.res.val) > rdLast.n


\* ------------------------------------------------------------------------
\* Inputs of the BCert specification: chains serialized the way the tests of
\* bcert.rs build them (build_test_chain), with well-formed and ill-formed
\* lengths
\* ------------------------------------------------------------------------

\* bound: attributes in the first certificate of an input chain
MaxAttrs == 2

\* bound: certificates in an input chain
MaxCerts == 2

to_be_bytes16(v) == <<v \div 256, v % 256>>

to_be_bytes32(v) == <<v \div 16777216, (v \div 65536) % 256, (v \div 256) % 256, v % 256>>

RECURSIVE Flatten(_)
Flatten(ss) == IF ss = <<>> THEN <<>> ELSE Head(ss) \o Flatten(Tail(ss))

\* a TLV attribute whose declared length is 8 + payload + extra
AttrBytes(flags, tag, payload, extra) ==
    to_be_bytes16(flags) \o to_be_bytes16(tag) \o to_be_bytes32(8 + Len(payload) + extra)
        \o payload

KeyBytes(k) ==
    to_be_bytes16(1) \o to_be_bytes16(Len(k.key) * 8) \o to_be_bytes32(0) \o k.key
        \o to_be_bytes32(Len(k.usages))
        \o Flatten([i \in 1..Len(k.usages) |-> to_be_bytes32(k.usages[i])])

KeyAttr(keys) ==
    AttrBytes(1, 6, to_be_bytes32(Len(keys))
                      \o Flatten([i \in 1..Len(keys) |-> KeyBytes(keys[i])]), 0)

SigAttr(sig, key) ==
    AttrBytes(1, 8, to_be_bytes16(1) \o to_be_bytes16(Len(sig)) \o sig
                      \o to_be_bytes32(Len(key) * 8) \o key, 0)

CertKey(key, usages) == [key |-> key, usages |-> usages]

\* the attributes input certificates are made of (every input byte is below
\* 0x80, so that a u32 read at any offset fits the checker's integers)
AUnknown == AttrBytes(0, 32765, <<42, 42, 42, 42>>, 0)

AKeySign == KeyAttr(<<CertKey(<<1, 2>>, <<KeyUsage_Sign>>)>>)

AKeyEncryptThenSign ==
    KeyAttr(<<CertKey(<<3, 4>>, <<KeyUsage_EncryptKey>>),
              CertKey(<<5, 6>>, <<KeyUsage_EncryptKey, KeyUsage_Sign>>)>>)

AKeyEncrypt == KeyAttr(<<CertKey(<<7, 8>>, <<KeyUsage_EncryptKey>>)>>)

ASignature == SigAttr(<<9, 9>>, <<1, 2>>)

\* a Pc attribute without its u32: the typed decoder fails
APcShort == AttrBytes(0, 3, <<>>, 0)

\* an opaque attribute that declares 4 bytes more than it carries
AOverrun == AttrBytes(0, 32765, <<43, 43>>, 4)

AttrPool == {AUnknown, AKeySign, AKeyEncryptThenSign, AKeyEncrypt, ASignature, APcShort,
             AOverrun}

\* A certificate: header, attributes, `pad` filler bytes; the declared total
\* length is the real one plus tdelta, the declared signed length is clen.
CertBytes(attrs, pad, tdelta, clen) ==
    LET body == Flatten(attrs) \o [i \in 1..pad |-> 0]
    IN  CERT_MAGIC \o to_be_bytes32(1) \o to_be_bytes32(16 + Len(body) + tdelta)
            \o to_be_bytes32(clen) \o body

\* header variants: [pad, tdelta, clen as an offset to the body length]
HeaderVariants ==
    { [pad |-> 0, tdelta |-> 0, cdelta |-> 0],     \* as build_test_chain
      [pad |-> 0, tdelta |-> 0, cdelta |-> 16],    \* signed length = total length
      [pad |-> 0, tdelta |-> 0, cdelta |-> 20],    \* signed length beyond the raw bytes
      [pad |-> 4, tdelta |-> 0, cdelta |-> 0],     \* trailing bytes inside the certificate
      [pad |-> 0, tdelta |-> 0 - 4, cdelta |-> 0], \* total length cuts the last attribute
      [pad |-> 0, tdelta |-> 8, cdelta |-> 0] }    \* total length beyond the certificate

MkCert(attrs, h) ==
    CertBytes(attrs, h.pad, h.tdelta, Len(Flatten(attrs)) + h.cdelta)

FirstCerts == {MkCert(a, h) : a \in SeqsUpTo(AttrPool, MaxAttrs), h \in HeaderVariants}

PlainCert == [pad |-> 0, tdelta |-> 0, cdelta |-> 0]

\* certificates that follow the first one
NextCerts == {MkCert(<<AKeySign>>, PlainCert), MkCert(<<>>, PlainCert)}

ChainBytes(count, certs) ==
    LET body == Flatten(certs)
    IN  CHAIN_MAGIC \o to_be_bytes32(1) \o to_be_bytes32(20 + Len(body)) \o to_be_bytes32(0)
            \o to_be_bytes32(count) \o body

CertLists ==
    {<<>>} \cup {<<c>> \o t : c \in FirstCerts, t \in SeqsUpTo(NextCerts, MaxCerts - 1)}

\* the BasicInfo payload of build_test_chain (security level 3000, device)
TestBasicAttr ==
    AttrBytes(1, 1, [i \in 1..16 |-> 1] \o to_be_bytes32(3000) \o to_be_bytes32(0)
                      \o to_be_bytes32(2) \o [i \in 1..32 |-> 2]
                      \o <<127, 127, 127, 127>> \o [i \in 1..16 |-> 3], 0)

ChainInputs ==
    {ChainBytes(Len(cs) + more, cs) : cs \in CertLists, more \in {0, 1}}
      \cup {ChainBytes(1, <<MkCert(<<TestBasicAttr>>, PlainCert)>>),
            <<88, 88, 88, 88, 0, 0, 0, 1>>,
            <<67, 72, 65>>,
            CHAIN_MAGIC \o to_be_bytes32(1) \o to_be_bytes32(20),
            \* a header alone, declaring 0x7F7F7F7F certificates
            CHAIN_MAGIC \o to_be_bytes32(1) \o to_be_bytes32(20) \o to_be_bytes32(0)
                \o <<127, 127, 127, 127>>,
            \* two certificates declared, one header with total_length = 0
            ChainBytes(2, <<CertBytes(<<>>, 0, 0 - 16, 0)>>)}

\* ------------------------------------------------------------------------
\* bcert.rs : BCertChain::from_bytes, one step per certificate
\* ------------------------------------------------------------------------

\* size_of::<BCert>(): three u32 and two Vec, on a 64-bit target
SizeOfBCert == 64

\* Vec::with_capacity(cert_count): the count comes from the input and the
\* capacity is requested before any certificate is read.  A request of more
\* than isize::MAX bytes on a 32-bit target panics ("capacity overflow"); on
\* a 64-bit target a request of that size is refused or granted by the
\* allocator, and a refusal aborts the process.
with_capacity(n) ==
    IF n > 2147483647 \div SizeOfBCert THEN {"allocated", "aborted"} ELSE {"allocated"}

BCertInit ==
    /\ bc \in {[pc |-> "start", r |-> NewReader(d), version |-> 0, flags |-> 0,
                cert_count |-> 0, certificates |-> <<>>, err |-> <<>>] : d \in ChainInputs}
    /\ ReaderIdle /\ CryptoIdle /\ SignIdle /\ ChainIdle /\ LicenseIdle
    /\ WrmIdle /\ MediaIdle

\* magic, version, total length, flags and certificate count
FromBytesHeader ==
    /\ bc.pc = "start"
    /\ \E magic \in {b_read_bytes(bc.r, 4)} :
           IF ~magic.ok
           THEN bc' = [bc EXCEPT !.pc = "err", !.err = magic.err]
           ELSE IF magic.val # CHAIN_MAGIC
           THEN bc' = [bc EXCEPT !.pc = "err", !.r = magic.r,
                         !.err = InvalidMagic("CHAI", from_utf8_lossy(magic.val))]
           ELSE \E h \in {ReadFields(magic.r,
                                    << <<"u32">>, <<"u32">>, <<"u32">>, <<"u32">> >>, <<>>)} :
                    IF ~h.ok
                    THEN bc' = [bc EXCEPT !.pc = "err", !.err = h.err]
                    ELSE \E outcome \in with_capacity(h.val[4]) :
                             bc' = [bc EXCEPT !.pc = IF outcome = "allocated" THEN "certs"
                                                    ELSE "abort",
                                      !.r = h.r,
                                      !.version = h.val[1], !.flags = h.val[3],
                                      !.cert_count = h.val[4]]
    /\ UNCHANGED notBCert

\* one iteration of `for _ in 0..cert_count { certificates.push(BCert::parse(&mut r)?) }`
FromBytesCert ==
    /\ bc.pc = "certs"
    /\ Len(bc.certificates) < bc.cert_count
    /\ \E c \in {BCert_parse(bc.r)} :
           IF ~c.ok
           THEN bc' = [bc EXCEPT !.pc = "err", !.err = c.err]
           ELSE bc' = [bc EXCEPT !.r = c.r, !.certificates = Append(@, c.val)]
    /\ UNCHANGED notBCert

\* Ok(Self { version, flags, certificates })
FromBytesReturn ==
    /\ bc.pc = "certs"
    /\ Len(bc.certificates) = bc.cert_count
    /\ bc' = [bc EXCEPT !.pc = "ok"]
    /\ UNCHANGED notBCert

BCertNext == FromBytesHeader \/ FromBytesCert \/ FromBytesReturn

SpecBCert == BCertInit /\ [][BCertNext]_vars

\* the certificates of the chain from_bytes returned
Returned == IF bc.pc = "ok" THEN bc.certificates ELSE <<>>

\* Self { version, flags, certificates }, once from_bytes has returned Ok
ParsedChain ==
    [version |-> bc.version, flags |-> bc.flags, certificates |-> bc.certificates]

\* C24: in every parsed chain leaf() is the certificate at index 0 and root()
\* the one at the last index; on a 1-certificate chain both are the same
\* certificate, and on a chain declared with cert_count = 0 both are none
C24_LeafFirstRootLast ==
    bc.pc = "ok" =>
        LET n == Len(bc.certificates)
        IN  /\ n > 0 => /\ leaf(ParsedChain) = Some(bc.certificates[1])
                        /\ root(ParsedChain) = Some(bc.certificates[n])
            /\ n = 1 => leaf(ParsedChain) = root(ParsedChain)
            /\ bc.cert_count = 0 => /\ leaf(ParsedChain) = None
                                    /\ root(ParsedChain) = None

\* a parsed chain of two different certificates: the root is the second one
C24_Witness ==
    /\ bc.pc = "ok"
    /\ Len(bc.certificates) = 2
    /\ bc.certificates[1] # bc.certificates[2]
    /\ leaf(ParsedChain).val = bc.certificates[1]
    /\ root(ParsedChain).val = bc.certificates[2]

\* a parsed chain of one certificate
C24_SingleWitness ==
    /\ bc.pc = "ok"
    /\ Len(bc.certificates) = 1
    /\ root(ParsedChain) = Some(bc.certificates[1])

\* a parsed chain declared with no certificates
C24_EmptyWitness ==
    /\ bc.pc = "ok"
    /\ bc.cert_count = 0
    /\ leaf(ParsedChain) = None

\* C27: during from_bytes the read position never moves backwards and each
\* certificate consumes at least its own 16-byte header, so the start
\* offsets of successive certificates are strictly increasing for every
\* input and no byte range is parsed as two different certificates
C27_StartsStrictlyIncreasing ==
    LET n == Len(bc.certificates)
    IN  /\ \A i \in 1..(n - 1) :
               bc.certificates[i + 1].start >= bc.certificates[i].start + 16
        /\ (bc.pc \in {"certs", "ok"} /\ n > 0) =>
               bc.r.pos >= bc.certificates[n].start + 16

\* a returned chain whose two certificates were parsed from the same offset
C27_SameRangeTwice ==
    /\ bc.pc = "ok"
    /\ Len(bc.certificates) = 2
    /\ bc.certificates[1].start = bc.certificates[2].start

\* --- C1 ---
\* C1: every certificate of a returned chain has a declared signed length
\* (certificate_length) of at most the length of its retained raw bytes, and
\* signed_bytes() is exactly raw[0..signed_length].
C1_SignedLengthWithinRaw ==
    \A i \in 1..Len(Returned) :
        LET c == Returned[i]
        IN  /\ c.certificate_length <= Len(c.raw)
            /\ Len(signed_bytes(c)) = c.certificate_length

\* --- C11 ---
\* the error kinds from_bytes may return
ParseErrorKinds == {"InvalidMagic", "UnexpectedEof"}

\* a certificate all of whose declared bytes were there to parse
CompletelyParsed(c) == Len(c.raw) = c.total_length

\* C11: from_bytes is all-or-nothing: once the header is read it ends either
\* with an error (InvalidMagic or end of data) or with a chain of exactly
\* cert_count completely parsed certificates, and in no other way.
C11_AllOrNothing ==
    /\ bc.pc \in {"start", "certs", "err", "ok"}
    /\ bc.pc = "err" => bc.err.kind \in ParseErrorKinds
    /\ bc.pc = "ok" =>
           /\ Len(bc.certificates) = bc.cert_count
           /\ \A i \in 1..Len(bc.certificates) : CompletelyParsed(bc.certificates[i])

\* --- C12 ---
\* C12: every attribute recorded for a certificate that starts at offset s
\* with declared total length t was read, header and payload, from bytes
\* inside [s, s+t): none reaches into the bytes after the certificate.
C12_AttributesInsideCertificate ==
    \A i \in 1..Len(bc.certificates) :
        LET c == bc.certificates[i]
        IN  \A j \in 1..Len(c.attributes) :
                /\ c.start <= c.attributes[j].from
                /\ c.attributes[j].to <= c.start + c.total_length

\* --- C13 ---
\* four filler bytes between the last attribute and the declared boundary
TrailingHeader == [pad |-> 4, tdelta |-> 0, cdelta |-> 0]

\* chains whose first certificate has well-formed attributes followed by
\* trailing bytes, with the number of its attributes and its boundary
TrailingInputs ==
    {[data |-> ChainBytes(1 + Len(x[2]), <<MkCert(x[1], TrailingHeader)>> \o x[2]),
      attrs |-> Len(x[1]),
      boundary |-> 20 + Len(MkCert(x[1], TrailingHeader)),
      certs |-> 1 + Len(x[2])] :
        x \in SeqsUpTo(AttrPool \ {APcShort, AOverrun}, MaxAttrs)
                \X SeqsUpTo(NextCerts, MaxCerts - 1)}

\* C13: trailing bytes inside a certificate are skipped: when its attributes
\* end before the declared boundary, also with fewer than 8 bytes left and
\* another certificate following, parsing does not fail, the leftover bytes
\* give no attribute and the next certificate is parsed from the boundary.
C13_TrailingBytesSkipped ==
    \A x \in TrailingInputs :
        bc.r.data = x.data =>
            /\ bc.pc # "err"
            /\ Len(bc.certificates) >= 1 =>
                   Len(bc.certificates[1].attributes) = x.attrs
            /\ Len(bc.certificates) >= 2 => bc.certificates[2].start = x.boundary
            /\ bc.pc = "ok" => Len(bc.certificates) = x.certs

\* --- C14 ---
\* C14: the raw bytes kept for a certificate that starts at offset start with
\* declared total_length are data[start .. min(start + total_length, len)],
\* byte for byte, whatever its attributes decoded to.
C14_RawIsDeclaredRange ==
    \A i \in 1..Len(bc.certificates) :
        LET c == bc.certificates[i]
        IN  c.raw = Slice(bc.r.data, c.start,
                          Min(c.start + c.total_length, Len(bc.r.data)))

\* two certificates returned, the first with an attribute read beyond its
\* boundary and bytes of the input after it
C14_Witness ==
    /\ bc.pc = "ok"
    /\ Len(bc.certificates) = 2
    /\ \E j \in 1..Len(bc.certificates[1].attributes) :
           bc.certificates[1].attributes[j].to
               > bc.certificates[1].start + bc.certificates[1].total_length
    /\ Len(bc.certificates[1].raw) = bc.certificates[1].total_length
    /\ bc.certificates[1].start + bc.certificates[1].total_length < Len(bc.r.data)

\* --- C15 ---
RecognizedTags == 1..17

TagAt(data, p) == from_be_bytes(Slice(data, p + 2, p + 4))

LengthAt(data, p) == from_be_bytes(Slice(data, p + 4, p + 8))

\* an attribute header at offset p with an unrecognized tag and a declared
\* length of at least 8 that fits in the buffer
OpaqueAt(data, p) ==
    /\ p + 8 <= Len(data)
    /\ TagAt(data, p) \notin RecognizedTags
    \* a length of 2^31 or more fits no buffer
    /\ data[p + 5] < 128
    /\ LengthAt(data, p) >= 8
    /\ p + LengthAt(data, p) <= Len(data)

\* C15: an attribute with an unrecognized tag and a declared length L >= 8
\* that fits in the buffer parses as one opaque attribute with that tag, the
\* flags and the L-8 payload bytes; every recorded attribute with such a tag
\* is opaque and holds the bytes it was read from.
C15_UnknownTagOpaque ==
    \* the input never changes: each one is examined once, before the call
    /\ \A p \in 0..(IF bc.pc = "start" THEN Len(bc.r.data) - 8 ELSE 0 - 1) :
           OpaqueAt(bc.r.data, p) =>
               LET a == BCertAttribute_parse([data |-> bc.r.data, pos |-> p])
               IN  /\ a.ok
                   /\ a.val.flags = from_be_bytes(Slice(bc.r.data, p, p + 2))
                   /\ a.val.tag = TagAt(bc.r.data, p)
                   /\ a.val.data = [kind |-> "Unknown",
                                    bytes |-> Slice(bc.r.data, p + 8,
                                                    p + LengthAt(bc.r.data, p))]
                   /\ a.r.pos = p + LengthAt(bc.r.data, p)
    /\ \A i \in 1..Len(bc.certificates) :
           \A j \in 1..Len(bc.certificates[i].attributes) :
               LET a == bc.certificates[i].attributes[j]
               IN  a.tag \notin RecognizedTags =>
                       /\ a.data.kind = "Unknown"
                       /\ a.data.bytes = Slice(bc.r.data, a.from + 8, a.to)
                       /\ a.tag = TagAt(bc.r.data, a.from)

\* a returned chain with the opaque attribute of tag 0x7FFD, length 12
C15_Witness ==
    /\ bc.pc = "ok"
    /\ \E i \in 1..Len(bc.certificates) :
           \E j \in 1..Len(bc.certificates[i].attributes) :
               LET a == bc.certificates[i].attributes[j]
               IN  /\ a.tag = 32765
                   /\ a.to - a.from = 12
                   /\ a.data.kind = "Unknown"
                   /\ Len(a.data.bytes) = 4

\* --- C9 ---
\* the keys of every key-list attribute, in attribute order then key order
RECURSIVE AllKeys(_)
AllKeys(attributes) ==
    IF attributes = <<>> THEN <<>>
    ELSE (IF Head(attributes).data.kind = "Key" THEN Head(attributes).data.keys ELSE <<>>)
            \o AllKeys(Tail(attributes))

\* C9: signing_key() / encryption_key() return the first embedded key, over
\* all key-list attributes in attribute order and the keys of each in key
\* order, whose usages contain Sign / EncryptKey, and none only if no
\* embedded key of any key-list attribute has that usage.
C9_FirstKeyWithUsage ==
    \A i \in 1..Len(Returned) :
        LET c == Returned[i]
        IN  /\ signing_key(c) = FirstKeyWithUsage(AllKeys(c.attributes), KeyUsage_Sign)
            /\ encryption_key(c) =
                 FirstKeyWithUsage(AllKeys(c.attributes), KeyUsage_EncryptKey)


\* ------------------------------------------------------------------------
\* The curve library (p256) at reduced scale: y^2 = x^3 - 3x + b over F_p
\* with a group of prime order n < p, as NIST P-256.  A field element or a
\* scalar is FieldLen symbols, big-endian, where the code has 32 bytes.
\* ------------------------------------------------------------------------

CurveP == 11

CurveA == 8

CurveB == 10

CurveN == 7

\* symbols per field element / scalar, and the base of a symbol
FieldLen == 4

SymBase == 2

Symbols == 0..(SymBase - 1)

RECURSIVE FromDigits(_)
FromDigits(d) ==
    IF d = <<>> THEN 0 ELSE FromDigits(SubSeq(d, 1, Len(d) - 1)) * SymBase + d[Len(d)]

RECURSIVE ToDigits(_, _)
ToDigits(v, len) ==
    IF len = 0 THEN <<>> ELSE Append(ToDigits(v \div SymBase, len - 1), v % SymBase)

\* every string of n symbols
AllStrings(n) == {s \in SeqsUpTo(Symbols, n) : Len(s) = n}

Identity == [inf |-> TRUE, x |-> 0, y |-> 0]

Affine(x, y) == [inf |-> FALSE, x |-> x, y |-> y]

OnCurve(x, y) == (y * y) % CurveP = (x * x * x + CurveA * x + CurveB) % CurveP

CurvePoints ==
    {Affine(q[1], q[2]) :
        q \in {c \in (0..(CurveP - 1)) \X (0..(CurveP - 1)) : OnCurve(c[1], c[2])}}

\* invert(): the inverse, and 0 where there is none
ModInv(v, m) ==
    IF \E w \in 1..(m - 1) : (v * w) % m = 1
    THEN CHOOSE w \in 1..(m - 1) : (v * w) % m = 1
    ELSE 0

PointNeg(P) == IF P.inf THEN P ELSE Affine(P.x, (CurveP - P.y) % CurveP)

PointOnLine(P, Q, lambda) ==
    Let((lambda * lambda + 2 * CurveP - P.x - Q.x) % CurveP, LAMBDA x3 :
        Affine(x3, (lambda * (P.x + CurveP - x3) + CurveP - P.y) % CurveP))

PointAdd(P, Q) ==
    IF P.inf THEN Q
    ELSE IF Q.inf THEN P
    ELSE IF P.x = Q.x /\ (P.y + Q.y) % CurveP = 0 THEN Identity
    ELSE IF P = Q
    THEN PointOnLine(P, Q, ((3 * P.x * P.x + CurveA) * ModInv((2 * P.y) % CurveP, CurveP))
                               % CurveP)
    ELSE PointOnLine(P, Q, ((Q.y + CurveP - P.y)
                               * ModInv((Q.x + CurveP - P.x) % CurveP, CurveP)) % CurveP)

PointSub_as_add(P, Q) == PointAdd(P, Q)

PointSub(P, Q) == PointAdd(P, PointNeg(Q))

\* P * k by doubling and adding
RECURSIVE DoubleAndAdd(_, _)
DoubleAndAdd(P, k) ==
    IF k = 0 THEN Identity
    ELSE Let(DoubleAndAdd(P, k \div 2), LAMBDA H :
             IF k % 2 = 0 THEN PointAdd(H, H) ELSE PointAdd(PointAdd(H, H), P))

\* the multiples of every point of the curve, computed once
Multiples == [P \in CurvePoints |-> [k \in 0..(CurveN - 1) |-> DoubleAndAdd(P, k)]]

ScalarMul(P, k) ==
    IF P \in CurvePoints /\ k \in 0..(CurveN - 1) THEN Multiples[P][k]
    ELSE DoubleAndAdd(P, k)

GENERATOR == Affine(2, 1)

\* ------------------------------------------------------------------------
\* drm/playready/src/crypto/elgamal.rs
\* ------------------------------------------------------------------------

EccKeyParse(msg) == [kind |-> "EccKeyParse", msg |-> msg]

ElGamalDecryptFailed(msg) == [kind |-> "ElGamalDecryptFailed", msg |-> msg]

\* a slice index out of range: the call does not return
Panic(what) == [ok |-> FALSE, panic |-> TRUE, err |-> [kind |-> "panic", msg |-> what]]

Fail(e) == [ok |-> FALSE, panic |-> FALSE, err |-> e]

Good(v) == [ok |-> TRUE, panic |-> FALSE, val |-> v]

\* FieldElement::from_bytes: None unless the value is below the modulus
FieldFromBytes(b) ==
    Let(FromDigits(b), LAMBDA v : IF v < CurveP THEN Some(v) ELSE None)

\* Scalar::from_repr: None unless the value is below the group order
ScalarFromRepr(b) ==
    Let(FromDigits(b), LAMBDA v : IF v < CurveN THEN Some(v) ELSE None)

\* AffinePoint::from_encoded_point(0x04 || X || Y)
FromEncodedPoint(xy) ==
    Let(FieldFromBytes(SubSeq(xy, 1, FieldLen)), LAMBDA x :
    Let(FieldFromBytes(SubSeq(xy, FieldLen + 1, 2 * FieldLen)), LAMBDA y :
        IF x.some /\ y.some /\ OnCurve(x.val, y.val)
        THEN Some(Affine(x.val, y.val))
        ELSE None))

parse_point_unchecked(xy) ==
    Good(Affine(FromDigits(SubSeq(xy, 1, FieldLen)) % CurveP,
                FromDigits(SubSeq(xy, FieldLen + 1, 2 * FieldLen)) % CurveP))

parse_point(xy) ==
    Let(FromEncodedPoint(xy), LAMBDA pt :
        IF pt.some THEN Good(pt.val) ELSE Fail(EccKeyParse("point not on curve")))

\* point.to_encoded_point(false).as_bytes()[1..65]: the encoding of the
\* identity is the single byte 0x00, and the slice panics
serialize_point(P) ==
    IF P.inf THEN Panic("range end index 65 out of range for slice of length 1")
    ELSE Good(ToDigits(P.x, FieldLen) \o ToDigits(P.y, FieldLen))

\* ecc256_encrypt after `let k = Scalar::random(&mut OsRng)` has drawn k
ecc256_encrypt(public_key, message_point, k) ==
    Let(parse_point(public_key), LAMBDA pk :
        IF ~pk.ok THEN pk
        ELSE Let(parse_point(message_point), LAMBDA msg :
             IF ~msg.ok THEN msg
             ELSE Let(serialize_point(ScalarMul(GENERATOR, k)), LAMBDA out1 :
                  IF ~out1.ok THEN out1
                  ELSE Let(serialize_point(PointAdd(msg.val, ScalarMul(pk.val, k))),
                           LAMBDA out2 :
                       IF ~out2.ok THEN out2 ELSE Good(out1.val \o out2.val)))))

\* whether ecc256_encrypt gets as far as drawing k
EncryptParses(public_key, message_point) ==
    parse_point(public_key).ok /\ parse_point(message_point).ok

\* ecc256_decrypt without its length test: the slices panic on a short buffer
ecc256_decrypt_unchecked_length(private_key, ciphertext) ==
    IF Len(ciphertext) < 2 * FieldLen THEN Panic("range end index out of range")
    ELSE Let(parse_point(SubSeq(ciphertext, 1, 2 * FieldLen)), LAMBDA point1 :
         IF Len(ciphertext) < 4 * FieldLen THEN Panic("range end index out of range")
         ELSE IF ~point1.ok THEN point1
         ELSE Let(parse_point(SubSeq(ciphertext, 2 * FieldLen + 1, 4 * FieldLen)),
                  LAMBDA point2 :
              IF ~point2.ok THEN point2
              ELSE Let(ScalarFromRepr(private_key), LAMBDA scalar :
                   IF ~scalar.some THEN Fail(EccKeyParse("invalid private key scalar"))
                   ELSE Let(PointSub(point2.val, ScalarMul(point1.val, scalar.val)),
                            LAMBDA decrypted :
                        IF decrypted.inf
                        THEN Fail(ElGamalDecryptFailed("decrypted to identity point"))
                        ELSE Good(ToDigits(decrypted.x, FieldLen))))))

\* ecc256_decrypt taking C2 from the end of the buffer
ecc256_decrypt_from_end(private_key, ciphertext) ==
    IF Len(ciphertext) < 4 * FieldLen
    THEN Fail(ElGamalDecryptFailed("ciphertext too short"))
    ELSE Let(parse_point(SubSeq(ciphertext, 1, 2 * FieldLen)), LAMBDA point1 :
         IF ~point1.ok THEN point1
         ELSE Let(parse_point(SubSeq(ciphertext, Len(ciphertext) - 2 * FieldLen + 1,
                                     Len(ciphertext))),
                  LAMBDA point2 :
              IF ~point2.ok THEN point2
              ELSE Let(ScalarFromRepr(private_key), LAMBDA scalar :
                   IF ~scalar.some THEN Fail(EccKeyParse("invalid private key scalar"))
                   ELSE Let(PointSub(point2.val, ScalarMul(point1.val, scalar.val)),
                            LAMBDA decrypted :
                        IF decrypted.inf
                        THEN Fail(ElGamalDecryptFailed("decrypted to identity point"))
                        ELSE Good(ToDigits(decrypted.x, FieldLen))))))

ecc256_decrypt(private_key, ciphertext) ==
    IF Len(ciphertext) < 4 * FieldLen
    THEN Fail(ElGamalDecryptFailed("ciphertext too short"))
    ELSE Let(parse_point(SubSeq(ciphertext, 1, 2 * FieldLen)), LAMBDA point1 :
         IF ~point1.ok THEN point1
         ELSE Let(parse_point(SubSeq(ciphertext, 2 * FieldLen + 1, 4 * FieldLen)),
                  LAMBDA point2 :
              IF ~point2.ok THEN point2
              ELSE Let(ScalarFromRepr(private_key), LAMBDA scalar :
                   IF ~scalar.some THEN Fail(EccKeyParse("invalid private key scalar"))
                   ELSE Let(PointSub(point2.val, ScalarMul(point1.val, scalar.val)),
                            LAMBDA decrypted :
                        IF decrypted.inf
                        THEN Fail(ElGamalDecryptFailed("decrypted to identity point"))
                        ELSE Good(ToDigits(decrypted.x, FieldLen))))))

\* ------------------------------------------------------------------------
\* drm/playready/src/crypto/signing.rs
\* ------------------------------------------------------------------------

EcdsaSignatureMismatch == [kind |-> "EcdsaSignatureMismatch", msg |-> ""]

\* SHA-256 at reduced scale: a digest of FieldLen symbols that depends on
\* every byte of the message, and is a different one for each message of up
\* to FieldLen - 1 symbols
\* SymBase^n modulo 241
RECURSIVE Weight(_)
Weight(n) ==
    IF n = 0 THEN 1
    ELSE IF n % 2 = 1 THEN (SymBase * Weight(n - 1)) % 241
    ELSE ((Weight(n \div 2) % 241) * Weight(n \div 2)) % 241

\* message[lo..hi] read as a big-endian number, modulo 241 (by halves)
RECURSIVE Absorb(_, _, _)
Absorb(message, lo, hi) ==
    IF lo > hi THEN 0
    ELSE IF lo = hi THEN message[lo] % 241
    ELSE (Absorb(message, lo, (lo + hi) \div 2) * Weight(hi - (lo + hi) \div 2)
            + Absorb(message, (lo + hi) \div 2 + 1, hi)) % 241

Sha256(message) ==
    (((Weight(Len(message)) + Absorb(message, 1, Len(message))) % 241) * 7 + 3)
        % (SymBase ^ FieldLen)

\* the digest as a scalar (bits2field, then reduction modulo the order)
DigestScalar(message) == Sha256(message) % CurveN

\* SigningKey::from_bytes: a scalar in 1..n-1
SigningKey_from_bytes(private_key) ==
    Let(FromDigits(private_key), LAMBDA d :
        IF d >= 1 /\ d < CurveN THEN Some(d) ELSE None)

\* a nonce drawn from the system random source instead of from key and digest
generate_k_random(d, z, attempt) == 1 + ((rng + attempt) % (CurveN - 1))

\* RFC 6979: the nonce is a function of the key and the digest (and of the
\* number of candidates already discarded)
generate_k(d, z, attempt) == 1 + ((2 * d + 3 * z + attempt) % (CurveN - 1))

\* r = x(k*G) mod n, s = (z + r*d) / k mod n; a candidate nonce giving r = 0
\* or s = 0 is discarded
RECURSIVE SignPrehash(_, _, _)
SignPrehash(d, z, attempt) ==
    Let(generate_k(d, z, attempt), LAMBDA k :
    Let(ScalarMul(GENERATOR, k).x % CurveN, LAMBDA r :
    Let((ModInv(k, CurveN) * (z + r * d)) % CurveN, LAMBDA sv :
        IF attempt < CurveN /\ (r = 0 \/ sv = 0)
        THEN SignPrehash(d, z, attempt + 1)
        ELSE [r |-> r, s |-> sv, k |-> k])))

\* signature.to_bytes(): R || S, each of fixed width
Signature_to_bytes(sig) == ToDigits(sig.r, FieldLen) \o ToDigits(sig.s, FieldLen)

ecdsa_sha256_sign(private_key, message) ==
    Let(SigningKey_from_bytes(private_key), LAMBDA key :
        IF ~key.some THEN Fail(EccKeyParse("invalid signing key"))
        ELSE Good(Signature_to_bytes(
                 SignPrehash(key.val, DigestScalar(message), 0))))

\* Signature::from_scalars: both of r and s in 1..n-1
from_scalars(r, sv) ==
    IF r >= 1 /\ r < CurveN /\ sv >= 1 /\ sv < CurveN
    THEN Some([r |-> r, s |-> sv])
    ELSE None

\* Signature::from_bytes on R || S
Signature_from_bytes(bytes) ==
    from_scalars(FromDigits(SubSeq(bytes, 1, FieldLen)),
                 FromDigits(SubSeq(bytes, FieldLen + 1, 2 * FieldLen)))

DER_SEQUENCE == 48

DER_INTEGER == 2

\* the shortest big-endian form of v (one symbol for 0)
RECURSIVE MinimalDigits(_)
MinimalDigits(v) ==
    IF v < SymBase THEN <<v>> ELSE Append(MinimalDigits(v \div SymBase), v % SymBase)

DerInteger(v) ==
    Let(MinimalDigits(v), LAMBDA d : <<DER_INTEGER, Len(d)>> \o d)

\* signature.to_der(): SEQUENCE { INTEGER r, INTEGER s }, integers of
\* minimal length
Signature_to_der(sig) ==
    Let(DerInteger(sig.r) \o DerInteger(sig.s), LAMBDA body :
        <<DER_SEQUENCE, Len(body)>> \o body)

\* one INTEGER at offset `at` (0-based): its value and the offset after it
ReadDerInteger(bytes, at) ==
    IF Len(bytes) < at + 2 \/ bytes[at + 1] # DER_INTEGER THEN None
    ELSE Let(bytes[at + 2], LAMBDA n :
         IF n < 1 \/ n > FieldLen \/ Len(bytes) < at + 2 + n THEN None
         ELSE Let(SubSeq(bytes, at + 3, at + 2 + n), LAMBDA d :
              IF (\E i \in 1..n : d[i] \notin Symbols) \/ (n > 1 /\ d[1] = 0)
              THEN None
              ELSE Some([val |-> FromDigits(d), next |-> at + 2 + n])))

\* Signature::from_der
Signature_from_der(bytes) ==
    IF Len(bytes) < 2 \/ bytes[1] # DER_SEQUENCE \/ bytes[2] # Len(bytes) - 2
    THEN None
    ELSE Let(ReadDerInteger(bytes, 2), LAMBDA r :
         IF ~r.some THEN None
         ELSE Let(ReadDerInteger(bytes, r.val.next), LAMBDA sv :
              IF ~sv.some \/ sv.val.next # Len(bytes) THEN None
              ELSE from_scalars(r.val.val, sv.val.val)))

\* a verification that leaves the message digest out
VerifyPrehash_no_digest(Q, z, sig) ==
    LET R == ScalarMul(Q, (sig.r * ModInv(sig.s, CurveN)) % CurveN)
    IN  ~R.inf /\ R.x % CurveN = sig.r

\* verifying_key.verify(message, &sig)
VerifyPrehash(Q, z, sig) ==
    LET w == ModInv(sig.s, CurveN)
        R == PointAdd(ScalarMul(GENERATOR, (z * w) % CurveN),
                      ScalarMul(Q, (sig.r * w) % CurveN))
    IN  ~R.inf /\ R.x % CurveN = sig.r

parse_verifying_key(xy) ==
    Let(FromEncodedPoint(xy), LAMBDA pt :
        IF pt.some THEN Good(pt.val) ELSE Fail(EccKeyParse("point not on curve")))

\* a variant that tells a malformed signature from one that does not verify
ecdsa_sha256_verify_telling(public_key, message, signature) ==
    Let(parse_verifying_key(public_key), LAMBDA verifying_key :
        IF ~verifying_key.ok THEN verifying_key
        ELSE Let(IF Len(signature) = 2 * FieldLen
                 THEN Signature_from_bytes(signature)
                 ELSE Signature_from_der(signature), LAMBDA sig :
             IF ~sig.some THEN Fail(EccKeyParse("malformed signature"))
             ELSE IF VerifyPrehash(verifying_key.val, DigestScalar(message), sig.val)
             THEN Good(<<>>)
             ELSE Fail(EcdsaSignatureMismatch)))

ecdsa_sha256_verify(public_key, message, signature) ==
    Let(parse_verifying_key(public_key), LAMBDA verifying_key :
        IF ~verifying_key.ok THEN verifying_key
        ELSE Let(IF Len(signature) = 2 * FieldLen
                 THEN Signature_from_bytes(signature)
                 ELSE Signature_from_der(signature), LAMBDA sig :
             IF ~sig.some THEN Fail(EcdsaSignatureMismatch)
             ELSE IF VerifyPrehash(verifying_key.val, DigestScalar(message), sig.val)
             THEN Good(<<>>)
             ELSE Fail(EcdsaSignatureMismatch)))

\* ------------------------------------------------------------------------
\* Calls of the two crypto modules: one call on inputs from anywhere, and
\* then possibly the decryption of the ciphertext it produced, or the
\* verification of its signature.  The functions keep no state between calls.
\* ------------------------------------------------------------------------

MaxMsgLen == 2

MaxTrail == 2

ScalarInputs == AllStrings(FieldLen)

PointInputs == AllStrings(2 * FieldLen)

ValidPoints == {serialize_point(P).val : P \in CurvePoints}

\* two 64-byte inputs of which at least one is a point, or both the same
PointPairs ==
    (PointInputs \X ValidPoints) \cup (ValidPoints \X PointInputs)
        \cup {<<x, x>> : x \in PointInputs}

Messages == SeqsUpTo(Symbols, MaxMsgLen)

ZeroPoint == ToDigits(0, 2 * FieldLen)

\* ciphertexts of exactly four field elements, shorter ones, and ones with
\* bytes after the fourth
CipherInputs ==
    {q[1] \o q[2] : q \in PointPairs}
        \cup {SubSeq(v \o v, 1, n) : v \in ValidPoints, n \in 0..(4 * FieldLen - 1)}
        \cup {a \o b \o t : a \in ValidPoints \cup {ZeroPoint},
                            b \in ValidPoints \cup {ZeroPoint},
                            t \in SeqsUpTo(Symbols, MaxTrail) \ {<<>>}}

AllScalars == 0..(SymBase ^ FieldLen - 1)

DerInputs == {Signature_to_der([r |-> a, s |-> b]) : a \in AllScalars, b \in AllScalars}

SampleDer == Signature_to_der([r |-> 2, s |-> 5])

\* encodings that are neither R || S nor a DER signature
MalformedInputs ==
    {SubSeq(SampleDer, 1, n) : n \in 0..(Len(SampleDer) - 1)}
        \cup {SampleDer \o <<0>>,
              [SampleDer EXCEPT ![1] = 49],
              [SampleDer EXCEPT ![2] = @ + 1],
              [SampleDer EXCEPT ![3] = 4],
              <<DER_SEQUENCE, 7, DER_INTEGER, 2, 0, 1, DER_INTEGER, 1, 1>>,
              <<DER_SEQUENCE, 4, DER_INTEGER, 0, DER_INTEGER, 1, 1>>}

SignatureInputs == AllStrings(2 * FieldLen) \cup DerInputs \cup MalformedInputs

CryptoInit ==
    /\ cr = NoOp
    /\ ReaderIdle /\ BCertIdle /\ SignIdle /\ ChainIdle /\ LicenseIdle
    /\ WrmIdle /\ MediaIdle

\* ecc256_encrypt: k is drawn only once both points have parsed
Encrypt ==
    /\ cr = NoOp
    /\ \E q \in PointPairs :
           IF EncryptParses(q[1], q[2])
           THEN \E k \in 0..(CurveN - 1) :
                    cr' = [op |-> "encrypt", public_key |-> q[1], message_point |-> q[2],
                           k |-> k, res |-> ecc256_encrypt(q[1], q[2], k)]
           ELSE cr' = [op |-> "encrypt", public_key |-> q[1], message_point |-> q[2],
                       k |-> -1, res |-> ecc256_encrypt(q[1], q[2], 0)]
    /\ UNCHANGED notCrypto

\* ecc256_decrypt of the ciphertext ecc256_encrypt has just returned
DecryptCiphertext ==
    /\ cr.op = "encrypt"
    /\ cr.res.ok
    /\ \E sk \in ScalarInputs :
           cr' = [op |-> "decrypt", private_key |-> sk, ciphertext |-> cr.res.val,
                  res |-> ecc256_decrypt(sk, cr.res.val), of |-> cr]
    /\ UNCHANGED notCrypto

\* ecc256_decrypt of bytes from anywhere
DecryptBytes ==
    /\ cr = NoOp
    /\ \E sk \in ScalarInputs, ct \in CipherInputs :
           cr' = [op |-> "decrypt", private_key |-> sk, ciphertext |-> ct,
                  res |-> ecc256_decrypt(sk, ct), of |-> NoOp]
    /\ UNCHANGED notCrypto

Sign ==
    /\ cr = NoOp
    /\ \E sk \in ScalarInputs, m \in Messages :
           cr' = [op |-> "sign", private_key |-> sk, message |-> m,
                  res |-> ecdsa_sha256_sign(sk, m)]
    /\ UNCHANGED notCrypto

\* ecdsa_sha256_verify of the signature ecdsa_sha256_sign has just returned,
\* as returned or re-encoded as DER
VerifySigned ==
    /\ cr.op = "sign"
    /\ cr.res.ok
    /\ \E pk \in ValidPoints, m \in Messages,
          sig \in {cr.res.val, Signature_to_der(Signature_from_bytes(cr.res.val).val)} :
           cr' = [op |-> "verify", public_key |-> pk, message |-> m, signature |-> sig,
                  res |-> ecdsa_sha256_verify(pk, m, sig), of |-> cr]
    /\ UNCHANGED notCrypto

\* ecdsa_sha256_verify of bytes from anywhere
VerifyBytes ==
    /\ cr = NoOp
    /\ \E q \in (ValidPoints \X Messages \X SignatureInputs)
                   \cup (PointInputs \X {<<>>} \X {Signature_to_bytes([r |-> 2, s |-> 5]),
                                                   SampleDer, <<>>}) :
           cr' = [op |-> "verify", public_key |-> q[1], message |-> q[2],
                  signature |-> q[3], res |-> ecdsa_sha256_verify(q[1], q[2], q[3]),
                  of |-> NoOp]
    /\ UNCHANGED notCrypto

CryptoNext ==
    \/ Encrypt
    \/ DecryptCiphertext
    \/ DecryptBytes
    \/ Sign
    \/ VerifySigned
    \/ VerifyBytes

SpecCrypto == CryptoInit /\ [][CryptoNext]_vars

\* what the claims below say about the inputs, stated without the parsers
IsPoint(xy) ==
    \E P \in CurvePoints : xy = ToDigits(P.x, FieldLen) \o ToDigits(P.y, FieldLen)

KeyParseError(res) == ~res.ok /\ ~res.panic /\ res.err.kind = "EccKeyParse"

\* the public key G*d of the private key d
PublicKeyOf(d) == serialize_point(ScalarMul(GENERATOR, d)).val

\* the private keys that have a public key
PrivateKeys == 1..(CurveN - 1)

\* --- C4 ---
\* C4: ecc256_encrypt (public key, message point), ecc256_decrypt (C1, C2 of
\* a ciphertext of full length) and ecdsa_sha256_verify (public key) return
\* the key-parse error, and no value, whenever one of these inputs does not
\* decode to a point on the curve.
C4_OffCurveRejected ==
    /\ (cr.op = "encrypt" /\ ~(IsPoint(cr.public_key) /\ IsPoint(cr.message_point)))
           => KeyParseError(cr.res)
    /\ (cr.op = "decrypt" /\ Len(cr.ciphertext) >= 4 * FieldLen
           /\ ~(IsPoint(SubSeq(cr.ciphertext, 1, 2 * FieldLen))
                /\ IsPoint(SubSeq(cr.ciphertext, 2 * FieldLen + 1, 4 * FieldLen))))
           => KeyParseError(cr.res)
    /\ (cr.op = "verify" /\ ~IsPoint(cr.public_key)) => KeyParseError(cr.res)

C4_Witness ==
    /\ cr.op = "decrypt"
    /\ Len(cr.ciphertext) >= 4 * FieldLen
    /\ IsPoint(SubSeq(cr.ciphertext, 1, 2 * FieldLen))
    /\ ~IsPoint(SubSeq(cr.ciphertext, 2 * FieldLen + 1, 4 * FieldLen))
    /\ FromDigits(SubSeq(cr.ciphertext, 3 * FieldLen + 1, 4 * FieldLen)) >= CurveP
    /\ KeyParseError(cr.res)

\* --- C5 ---
\* C5: for every point P, keypair (sk, pk = G*sk) and scalar k the encryption
\* draws, ecc256_encrypt(pk, P) succeeds, and ecc256_decrypt(sk, .) of its
\* result succeeds and returns the X coordinate of P.
C5_ElGamalRoundTrip ==
    /\ (cr.op = "encrypt" /\ IsPoint(cr.message_point)
           /\ \E d \in PrivateKeys : cr.public_key = PublicKeyOf(d))
           => cr.res.ok
    /\ (cr.op = "decrypt" /\ cr.of.op = "encrypt"
           /\ FromDigits(cr.private_key) \in PrivateKeys
           /\ cr.of.public_key = PublicKeyOf(FromDigits(cr.private_key)))
           => (cr.res.ok /\ cr.res.val = SubSeq(cr.of.message_point, 1, FieldLen))

\* --- C6 ---
\* the verification of a signature as ecdsa_sha256_sign returned it
VerifiesSigned == cr.op = "verify" /\ cr.of.op = "sign" /\ cr.signature = cr.of.res.val

SignerKey == FromDigits(cr.of.private_key)

\* the private key of the public key the verification is made against
VerifierKey == CHOOSE d \in PrivateKeys : cr.public_key = PublicKeyOf(d)

SameInputs == cr.public_key = PublicKeyOf(SignerKey) /\ cr.message = cr.of.message

Combined(message, r, d) == (DigestScalar(message) + r * d) % CurveN

Decodable(signature) ==
    \E a \in PrivateKeys, b \in PrivateKeys :
        \/ signature = ToDigits(a, FieldLen) \o ToDigits(b, FieldLen)
        \/ /\ signature = Signature_to_der([r |-> a, s |-> b])
           /\ Len(signature) # 2 * FieldLen

\* C8: for a valid public key every failure of ecdsa_sha256_verify is the
\* same error value EcdsaSignatureMismatch, for malformed signature bytes and
\* for well-formed ones that do not verify alike.
C8_OneErrorValue ==
    (cr.op = "verify" /\ IsPoint(cr.public_key) /\ ~cr.res.ok)
        => cr.res = Fail(EcdsaSignatureMismatch)

C8_Witness ==
    /\ cr.op = "verify"
    /\ IsPoint(cr.public_key)
    /\ ~Decodable(cr.signature)
    /\ Len(cr.signature) > 2 * FieldLen
    /\ cr.res = Fail(EcdsaSignatureMismatch)

\* --- C16 ---
TooShort == Fail(ElGamalDecryptFailed("ciphertext too short"))

\* C16: ecc256_decrypt of a ciphertext shorter than four field elements (128
\* bytes) returns the length error, whatever the private key and whatever
\* the bytes: no point is parsed, nothing is sliced, and it does not panic.
C16_ShortCiphertextRejected ==
    (cr.op = "decrypt" /\ Len(cr.ciphertext) < 4 * FieldLen) => cr.res = TooShort

\* one byte short, the first half a point, under a private key that is no
\* scalar
C16_Witness ==
    /\ cr.op = "decrypt"
    /\ Len(cr.ciphertext) = 4 * FieldLen - 1
    /\ IsPoint(SubSeq(cr.ciphertext, 1, 2 * FieldLen))
    /\ FromDigits(cr.private_key) >= CurveN
    /\ cr.res = TooShort

\* --- C17 ---
\* C17: ecc256_decrypt consumes only the first four field elements (128
\* bytes): with bytes after them it returns what it returns without them,
\* the same value or the same error.
C17_TrailingBytesIgnored ==
    (cr.op = "decrypt" /\ Len(cr.ciphertext) > 4 * FieldLen) =>
        cr.res = ecc256_decrypt(cr.private_key, SubSeq(cr.ciphertext, 1, 4 * FieldLen))

\* a ciphertext with MaxTrail bytes after it that decrypts to a value
C17_Witness ==
    /\ cr.op = "decrypt"
    /\ Len(cr.ciphertext) = 4 * FieldLen + MaxTrail
    /\ cr.res.ok
    /\ SubSeq(cr.ciphertext, Len(cr.ciphertext) - 2 * FieldLen + 1, Len(cr.ciphertext))
           # SubSeq(cr.ciphertext, 2 * FieldLen + 1, 4 * FieldLen)

\* --- C18 ---
\* the point a 64-byte encoding stands for
PointOf(xy) ==
    CHOOSE P \in CurvePoints : xy = ToDigits(P.x, FieldLen) \o ToDigits(P.y, FieldLen)

\* C2 = private_scalar * C1, for a ciphertext of two points and a private key
\* that is a scalar
DecryptsToIdentity ==
    /\ Len(cr.ciphertext) >= 4 * FieldLen
    /\ IsPoint(SubSeq(cr.ciphertext, 1, 2 * FieldLen))
    /\ IsPoint(SubSeq(cr.ciphertext, 2 * FieldLen + 1, 4 * FieldLen))
    /\ FromDigits(cr.private_key) < CurveN
    /\ PointOf(SubSeq(cr.ciphertext, 2 * FieldLen + 1, 4 * FieldLen))
           = ScalarMul(PointOf(SubSeq(cr.ciphertext, 1, 2 * FieldLen)),
                       FromDigits(cr.private_key))

\* C18: when C2 - private_scalar * C1 is the identity, ecc256_decrypt returns
\* the "decrypted to identity" decryption error and no value.
C18_IdentityIsAnError ==
    (cr.op = "decrypt" /\ DecryptsToIdentity) =>
        cr.res = Fail(ElGamalDecryptFailed("decrypted to identity point"))

C18_Witness ==
    /\ cr.op = "decrypt"
    /\ DecryptsToIdentity
    /\ FromDigits(cr.private_key) > 1
    /\ ~cr.res.ok
    /\ cr.res.err.kind = "ElGamalDecryptFailed"

\* --- C19 ---
\* the verification, under the signer's key and message, of a signature
\* ecdsa_sha256_sign returned, in either encoding
VerifiesOwnSignature == cr.op = "verify" /\ cr.of.op = "sign" /\ SameInputs

\* C19: ecdsa_sha256_verify returns ok for every valid signature, supplied
\* as fixed-width R || S or as its DER encoding, whatever the length of the
\* DER encoding.
C19_BothEncodingsAccepted == VerifiesOwnSignature => cr.res.ok

\* ------------------------------------------------------------------------
\* ecdsa_sha256_sign called twice on the same key and message, with draws
\* from the system random source (as ecc256_encrypt makes) in between.
\* ------------------------------------------------------------------------

SignInit ==
    /\ sg = SgIdle
    /\ rng = 0
    /\ ReaderIdle /\ BCertIdle /\ CryptoIdle /\ ChainIdle /\ LicenseIdle
    /\ WrmIdle /\ MediaIdle

SignRecord(sk, m) ==
    [op |-> "sign", private_key |-> sk, message |-> m, res |-> ecdsa_sha256_sign(sk, m)]

SignFirst ==
    /\ sg.last = NoOp
    /\ \E sk \in ScalarInputs, m \in Messages :
           sg' = [last |-> SignRecord(sk, m), prev |-> NoOp]
    /\ UNCHANGED rng
    /\ UNCHANGED notSign

\* Scalar::random(&mut OsRng) in some other call
RandomDraw ==
    /\ rng' \in (0..(CurveN - 1)) \ {rng}
    /\ UNCHANGED sg
    /\ UNCHANGED notSign

SignAgain ==
    /\ sg.last # NoOp
    /\ sg.prev = NoOp
    /\ sg' = [last |-> SignRecord(sg.last.private_key, sg.last.message), prev |-> sg.last]
    /\ UNCHANGED rng
    /\ UNCHANGED notSign

SignNext == SignFirst \/ RandomDraw \/ SignAgain

SpecSign == SignInit /\ [][SignNext]_vars

MaxChain == 3

ChainUntrusted == [kind |-> "ChainUntrusted", msg |-> ""]

\* input certificates: a signing key, and a signature block made by `signer`
\* over the signed region (or, by variant, over other bytes, absent, or with
\* a signed length beyond the certificate)
CertVariants == {"good", "wrong_signer", "other_bytes", "no_signature", "overlong"}

SubjectKeys(subject) == KeyAttr(<<CertKey(PublicKeyOf(subject), <<KeyUsage_Sign>>)>>)

\* header and key attribute: the region a good signature is over
SignedRegion(subject, variant) ==
    LET signedLen == 16 + Len(SubjectKeys(subject))
        total == signedLen + (IF variant = "no_signature" THEN 0 ELSE 24 + 4 * FieldLen)
    IN  CERT_MAGIC \o to_be_bytes32(1) \o to_be_bytes32(total)
            \o to_be_bytes32(IF variant = "overlong" THEN total + 4 ELSE signedLen)
            \o SubjectKeys(subject)

\* the private key the variant has the signature made with, and the bytes it
\* is made over
SigningKeyOf(signer, variant) ==
    ToDigits(IF variant = "wrong_signer" THEN 1 + (signer % (CurveN - 1)) ELSE signer,
             FieldLen)

SignedOver(tbs, variant) == IF variant = "other_bytes" THEN Append(tbs, 1) ELSE tbs

\* the private key behind the certificate at depth i (0 = leaf)
KeyAt(i) == 1 + i

RECURSIVE SignedChains(_)
SignedChains(n) ==
    IF n = 0 THEN {<<>>}
    ELSE {Append(c, v) : c \in SignedChains(n - 1), v \in CertVariants}

\* a chain to be issued and received, and the caller's trust anchor
ChainStart(variants, key) ==
    [pc |-> "issue", variants |-> variants, input |-> <<>>, chain |-> <<>>,
     anchor |-> PublicKeyOf(key), i |-> 0, keys |-> <<>>, err |-> <<>>]

\* chains of one to MaxChain certificates; the anchor is the root's key or
\* another one
ChainInit ==
    /\ vc \in UNION {{ChainStart(v, a) : a \in {KeyAt(Len(v) - 1), KeyAt(Len(v))}} :
                        v \in UNION {SignedChains(n) : n \in 1..MaxChain}}
    /\ ReaderIdle /\ BCertIdle /\ CryptoIdle /\ SignIdle /\ LicenseIdle
    /\ WrmIdle /\ MediaIdle

\* the issuer's side: the next certificate of the chain, leaf first; the last
\* one is the root and signs itself
IssueCert ==
    /\ vc.pc = "issue"
    /\ \E n \in {Len(vc.input) + 1} :
       \E signer \in {IF n = Len(vc.variants) THEN KeyAt(n - 1) ELSE KeyAt(n)} :
       \E tbs \in {SignedRegion(KeyAt(n - 1), vc.variants[n])} :
       \E sig \in {ecdsa_sha256_sign(SigningKeyOf(signer, vc.variants[n]),
                                      SignedOver(tbs, vc.variants[n])).val} :
       \E c \in {IF vc.variants[n] = "no_signature" THEN tbs
                  ELSE tbs \o SigAttr(sig, PublicKeyOf(signer))} :
           vc' = [vc EXCEPT !.input = Append(@, c),
                            !.pc = IF n = Len(vc.variants) THEN "parse" ELSE "issue"]
    /\ UNCHANGED notChain

\* BCert::parse of the next certificate received
ParseCert ==
    /\ vc.pc = "parse"
    /\ Len(vc.chain) < Len(vc.input)
    /\ \E c \in {BCert_parse(NewReader(vc.input[Len(vc.chain) + 1]))} :
           vc' = [vc EXCEPT !.chain = Append(@, c.val)]
    /\ UNCHANGED notChain

\* verify_chain(chain, trust_anchor) entered
EnterVerify ==
    /\ vc.pc = "parse"
    /\ Len(vc.chain) = Len(vc.input)
    /\ vc' = [vc EXCEPT !.pc = "links"]
    /\ UNCHANGED notChain

\* certificate i's signature over raw[0..signed_length] verifies under the
\* signing-usage key of certificate i+1 (i counted from 0)
verify_link(cert, issuer) ==
    /\ signature_info(cert).some
    /\ signing_key(issuer).some
    /\ cert.certificate_length <= Len(cert.raw)
    /\ ecdsa_sha256_verify(signing_key(issuer).val, signed_bytes(cert),
                           signature_info(cert).val.signature).ok

VerifyLink ==
    /\ vc.pc = "links"
    /\ vc.i < Len(vc.chain) - 1
    /\ IF verify_link(vc.chain[vc.i + 1], vc.chain[vc.i + 2])
       THEN vc' = [vc EXCEPT !.i = @ + 1]
       ELSE vc' = [vc EXCEPT !.pc = "untrusted", !.err = ChainUntrusted]
    /\ UNCHANGED notChain

\* the root's own key against the caller's trust anchor; on success the
\* leaf's keys are the result
VerifyRoot ==
    /\ vc.pc = "links"
    /\ vc.i = Len(vc.chain) - 1
    /\ IF signing_key(vc.chain[Len(vc.chain)]) = Some(vc.anchor)
       THEN vc' = [vc EXCEPT !.pc = "ok", !.keys = key_info(vc.chain[1]).val.keys]
       ELSE vc' = [vc EXCEPT !.pc = "untrusted", !.err = ChainUntrusted]
    /\ UNCHANGED notChain

ChainNext == IssueCert \/ ParseCert \/ EnterVerify \/ VerifyLink \/ VerifyRoot

SpecChain == ChainInit /\ [][ChainNext]_vars

\* --- C2 ---
\* link i of the chain being verified, stated on the bytes
LinkVerifies(i) ==
    LET cert == vc.chain[i + 1]
        sig == signature_info(cert)
        key == signing_key(vc.chain[i + 2])
    IN  /\ sig.some
        /\ key.some
        /\ cert.certificate_length <= Len(cert.raw)
        /\ ecdsa_sha256_verify(key.val, SubSeq(cert.raw, 1, cert.certificate_length),
                               sig.val.signature).ok

AllLinksVerify == \A i \in 0..(Len(vc.chain) - 2) : LinkVerifies(i)

RootIsAnchor == signing_key(vc.chain[Len(vc.chain)]) = Some(vc.anchor)

\* C2: verify_chain succeeds, returning the leaf's keys, only if every link
\* 0..len-2 verifies over raw[0..signed_length] under the next certificate's
\* signing-usage key and the root's key is the trust anchor; when a link
\* fails or the root's key is another, it ends with ChainUntrusted and no key.
C2_ChainAllOrNothing ==
    /\ vc.pc = "ok" => (AllLinksVerify /\ RootIsAnchor /\ vc.err = <<>>)
    /\ vc.pc = "untrusted" =>
           (~(AllLinksVerify /\ RootIsAnchor) /\ vc.keys = <<>> /\ vc.err = ChainUntrusted)
    /\ vc.pc \in {"issue", "parse", "links"} =>
           (vc.keys = <<>> /\ \A i \in 0..(vc.i - 1) : LinkVerifies(i))

C2_Witness ==
    /\ vc.pc = "untrusted"
    /\ Len(vc.chain) = 3
    /\ LinkVerifies(0)
    /\ signature_info(vc.chain[2]).some
    /\ vc.chain[2].certificate_length <= Len(vc.chain[2].raw)
    /\ ~LinkVerifies(1)
    /\ RootIsAnchor
    /\ vc.keys = <<>>

\* ---------------------------------------------------------------------------
\* License key derivation and unwrap: derive_and_unwrap(session_key,
\* license_body).  The three derived keys are the fields of DerivedKeys; a
\* cipher block of BlockLen octets stands for the 16-byte AES block, and an
\* octet holds a value below Octet.
\* ---------------------------------------------------------------------------
MaxKeys == 2

BlockLen == 2

Octet == SymBase ^ FieldLen

ENC_CONTEXT == <<1, 2>>

MAC_CONTEXT == <<3, 4>>

ResponseAuthenticationFailed == [kind |-> "ResponseAuthenticationFailed", msg |-> ""]

KeyUnwrapFailed == [kind |-> "KeyUnwrapFailed", msg |-> ""]

\* the block-sized message authentication code of the key derivation
Cmac(key, message) ==
    [j \in 1..BlockLen |-> Sha256(<<j>> \o key \o message)]

\* the keyed hash that authenticates the response: two blocks long
HmacSha256(key, message) ==
    [j \in 1..(2 * BlockLen) |-> Sha256(<<BlockLen + j>> \o key \o message)]

\* DerivedKeys: enc_key = MAC(session_key, 0x01 || enc_context),
\* mac_key_server = MAC(.., 0x01 || mac_context) || MAC(.., 0x02 || mac_context),
\* mac_key_client = MAC(.., 0x03 || mac_context) || MAC(.., 0x04 || mac_context)
DerivedKeys(session_key) ==
    [enc_key |-> Cmac(session_key, <<1>> \o ENC_CONTEXT),
     mac_key_server |-> Cmac(session_key, <<1>> \o MAC_CONTEXT)
                            \o Cmac(session_key, <<2>> \o MAC_CONTEXT),
     mac_key_client |-> Cmac(session_key, <<3>> \o MAC_CONTEXT)
                            \o Cmac(session_key, <<4>> \o MAC_CONTEXT)]

\* KeyType::from_u8: the named key types; 0 and anything above 6 have none
KeyType_from_u8(u) ==
    CASE u = 1 -> Some("Signing")
      [] u = 2 -> Some("Content")
      [] u = 3 -> Some("KeyControl")
      [] u = 4 -> Some("OperatorSession")
      [] u = 5 -> Some("Entitlement")
      [] u = 6 -> Some("OemContent")
      [] OTHER -> None

\* the block cipher and its inverse, octet by octet under the key
EncryptBlock(key, block) ==
    [j \in 1..BlockLen |-> (block[BlockLen + 1 - j] + key[j]) % Octet]

DecryptBlock(key, block) ==
    [j \in 1..BlockLen |-> (block[BlockLen + 1 - j] - key[BlockLen + 1 - j] + Octet) % Octet]

BlockAt(data, iv, n) ==
    IF n = 0 THEN iv ELSE SubSeq(data, (n - 1) * BlockLen + 1, n * BlockLen)

Chain2(a, b) == [j \in 1..BlockLen |-> (a[j] + b[j]) % Octet]

Unchain2(a, b) == [j \in 1..BlockLen |-> (a[j] - b[j] + Octet) % Octet]

RECURSIVE CbcEncryptFrom(_, _, _)
CbcEncryptFrom(key, previous, plain) ==
    IF Len(plain) < BlockLen THEN <<>>
    ELSE LET block == EncryptBlock(key, Chain2(SubSeq(plain, 1, BlockLen), previous))
         IN  block \o CbcEncryptFrom(key, block, SubSeq(plain, BlockLen + 1, Len(plain)))

CbcEncrypt(key, iv, plain) == CbcEncryptFrom(key, iv, plain)

\* CBC decryption: each block deciphered, then unchained from the block
\* before it (the initialization vector for the first)
CbcDecrypt(key, iv, cipher) ==
    [j \in 1..Len(cipher) |->
        LET n == (j - 1) \div BlockLen + 1
            block == Unchain2(DecryptBlock(key, BlockAt(cipher, iv, n)),
                              BlockAt(cipher, iv, n - 1))
        IN  block[((j - 1) % BlockLen) + 1]]

Pkcs7Pad(data) ==
    LET n == BlockLen - (Len(data) % BlockLen)
    IN  data \o [j \in 1..n |-> n]

\* PKCS#7 unpadding: the last octet n is in 1..BlockLen and the last n octets
\* all hold n
Pkcs7Unpad(data) ==
    IF Len(data) = 0 THEN Fail(KeyUnwrapFailed)
    ELSE LET n == data[Len(data)]
         IN  IF n < 1 \/ n > BlockLen \/ n > Len(data) THEN Fail(KeyUnwrapFailed)
             ELSE IF \E j \in (Len(data) - n + 1)..Len(data) : data[j] # n
                  THEN Fail(KeyUnwrapFailed)
                  ELSE Good(SubSeq(data, 1, Len(data) - n))

\* enum KeyType: the six named key types, and no other value
KeyTypes == {"Signing", "Content", "KeyControl", "OperatorSession", "Entitlement",
             "OemContent"}

\* ContentKey { kid, key, key_type: KeyType }
ContentKeyOf(container, key, key_type) ==
    [kid |-> container.id, key |-> key, key_type |-> key_type]

\* the key types a retained key of a container can carry: the named type of
\* its key-type field; for the unset value 0, which KeyType has no variant
\* for, one of the named types that the content-keys view leaves out
KeyTypeChoices(u) ==
    IF KeyType_from_u8(u).some THEN {KeyType_from_u8(u).val} ELSE KeyTypes \ {"Content"}

\* the default view: the keys of the content type only
content_keys(keys) == SelectSeq(keys, LAMBDA k : k.key_type = "Content")

\* step 3, one key container: length checks, CBC under enc_key and the
\* container's own iv, then the padding
unwrap_key(enc_key, container, key_type) ==
    IF \/ Len(container.iv) # BlockLen
       \/ Len(container.key) = 0
       \/ Len(container.key) % BlockLen # 0
    THEN Fail(KeyUnwrapFailed)
    ELSE LET plain == Pkcs7Unpad(CbcDecrypt(enc_key, container.iv, container.key))
         IN  IF plain.ok THEN Good(ContentKeyOf(container, plain.val, key_type))
             ELSE plain

\* the canonical bytes of the license payload
ContainerBytes(container) ==
    <<container.id, container.type, Len(container.iv), Len(container.key)>>
        \o container.iv \o container.key

RECURSIVE PayloadBytes(_)
PayloadBytes(payload) ==
    IF payload = <<>> THEN <<>>
    ELSE ContainerBytes(Head(payload)) \o PayloadBytes(Tail(payload))

response_authenticated_unchecked(keys, body) == TRUE

\* step 2: the declared signature is the HMAC of the payload's canonical
\* bytes under mac_key_server
response_authenticated(keys, body) ==
    HmacSha256(keys.mac_key_server, PayloadBytes(body.payload)) = body.signature

\* --- the license bodies the checks run over ---
SessionKeys == {<<1, 2>>, <<3, 1>>}

ContainerVariants == {"content", "untyped", "bad_padding", "bad_length"}

LicenseTampers == {"none", "injected_key", "other_signature", "unsigned"}

\* a key container as the server wraps it under enc_key; the last two are
\* wrapped wrongly (no valid padding, a length that is no whole block)
ContainerOf(enc_key, id, variant) ==
    LET iv == <<id, 3>>
    IN  CASE variant = "content" ->
               [id |-> id, type |-> 2, iv |-> iv,
                key |-> CbcEncrypt(enc_key, iv, Pkcs7Pad(<<7, id>>))]
          [] variant = "untyped" ->
               [id |-> id, type |-> 0, iv |-> iv,
                key |-> CbcEncrypt(enc_key, iv, Pkcs7Pad(<<5>>))]
          [] variant = "bad_padding" ->
               [id |-> id, type |-> 2, iv |-> iv,
                key |-> CbcEncrypt(enc_key, iv, <<7, 0>>)]
          [] OTHER ->
               [id |-> id, type |-> 2, iv |-> iv,
                key |-> SubSeq(CbcEncrypt(enc_key, iv, Pkcs7Pad(<<7, id>>)), 1, BlockLen + 1)]

VariantLists ==
    UNION {[1..n -> ContainerVariants] : n \in 0..MaxKeys}

\* the license a server holding server_key issues, then altered on the way
LicenseBody(server_key, variants, tamper) ==
    LET keys == DerivedKeys(server_key)
        payload == [j \in 1..Len(variants) |-> ContainerOf(keys.enc_key, j, variants[j])]
        mac == HmacSha256(keys.mac_key_server, PayloadBytes(payload))
    IN  CASE tamper = "injected_key" ->
               [payload |-> Append(payload,
                                   ContainerOf(keys.enc_key, Len(variants) + 1, "content")),
                signature |-> mac]
          [] tamper = "other_signature" ->
               [payload |-> payload,
                signature |-> [mac EXCEPT ![1] = (@ + 1) % Octet]]
          [] tamper = "unsigned" ->
               [payload |-> payload, signature |-> <<>>]
          [] OTHER ->
               [payload |-> payload, signature |-> mac]

LicenseStart(session_key, body) ==
    [pc |-> "derive", session_key |-> session_key, body |-> body,
     derived |-> <<>>, authenticated |-> FALSE, i |-> 0, decrypted |-> {},
     keys |-> <<>>, key_errors |-> <<>>, err |-> <<>>]

LicenseInit ==
    /\ lic \in {LicenseStart(x[1], LicenseBody(x[2], x[3], x[4])) :
                  x \in SessionKeys \X SessionKeys \X VariantLists \X LicenseTampers}
    /\ ReaderIdle /\ BCertIdle /\ CryptoIdle /\ SignIdle /\ ChainIdle
    /\ WrmIdle /\ MediaIdle

\* step 1: all three keys, unconditionally
DeriveKeys ==
    /\ lic.pc = "derive"
    /\ lic' = [lic EXCEPT !.pc = "authenticate", !.derived = DerivedKeys(lic.session_key)]
    /\ UNCHANGED notLicense

\* step 2: a mismatch ends the call for the whole response
Authenticate ==
    /\ lic.pc = "authenticate"
    /\ IF response_authenticated(lic.derived, lic.body)
       THEN lic' = [lic EXCEPT !.pc = "unwrap", !.authenticated = TRUE]
       ELSE lic' = [lic EXCEPT !.pc = "failed", !.err = ResponseAuthenticationFailed]
    /\ UNCHANGED notLicense

\* step 3, the next key container: a failure is recorded for that key alone
UnwrapKey ==
    /\ lic.pc = "unwrap"
    /\ lic.i < Len(lic.body.payload)
    /\ \E res \in {unwrap_key(lic.derived.enc_key, lic.body.payload[lic.i + 1], kt) :
                       kt \in KeyTypeChoices(lic.body.payload[lic.i + 1].type)} :
          lic' = [lic EXCEPT
                    !.i = @ + 1,
                    !.decrypted = @ \cup {lic.i + 1},
                    !.keys = IF res.ok THEN Append(@, res.val) ELSE @,
                    !.key_errors = IF res.ok THEN @
                                   ELSE Append(@, [index |-> lic.i + 1, err |-> res.err])]
    /\ UNCHANGED notLicense

\* every container seen: the retained keys are the result
FinishUnwrap ==
    /\ lic.pc = "unwrap"
    /\ lic.i = Len(lic.body.payload)
    /\ lic' = [lic EXCEPT !.pc = "done"]
    /\ UNCHANGED notLicense

LicenseNext == DeriveKeys \/ Authenticate \/ UnwrapKey \/ FinishUnwrap

SpecLicense == LicenseInit /\ [][LicenseNext]_vars

\* --- C3 ---
\* the response's MAC, stated on the bytes: the HMAC of the payload under
\* MAC(session_key, 0x01 || mac_context) || MAC(session_key, 0x02 || mac_context)
MacVerifies ==
    HmacSha256(Cmac(lic.session_key, <<1>> \o MAC_CONTEXT)
                   \o Cmac(lic.session_key, <<2>> \o MAC_CONTEXT),
               PayloadBytes(lic.body.payload)) = lic.body.signature

\* C3: response authentication precedes every per-key unwrap: a key container
\* is decrypted, and a key is in the result, only when the HMAC of the license
\* payload under mac_key_server has verified; on a mismatch the call ends
\* with the response-authentication error and an empty key set.
C3_AuthenticationBeforeUnwrap ==
    /\ (lic.decrypted # {} \/ lic.keys # <<>> \/ lic.key_errors # <<>>)
           => (lic.authenticated /\ MacVerifies)
    /\ lic.pc \in {"unwrap", "done"} => (lic.authenticated /\ MacVerifies)
    /\ lic.pc = "failed" =>
           /\ ~MacVerifies
           /\ lic.err = ResponseAuthenticationFailed
           /\ lic.keys = <<>>
           /\ lic.decrypted = {}
    /\ (~MacVerifies /\ lic.pc \notin {"derive", "authenticate"}) => lic.pc = "failed"

C3_Witness ==
    /\ lic.pc = "failed"
    /\ ~MacVerifies
    /\ lic.err = ResponseAuthenticationFailed
    /\ Len(lic.body.payload) >= 2
    /\ lic.body.signature # <<>>
    /\ \A j \in 1..Len(lic.body.payload) :
           unwrap_key(lic.derived.enc_key, lic.body.payload[j], "Content").ok
    /\ lic.keys = <<>>
    /\ lic.decrypted = {}

\* --- C20 ---
\* the retained key of container j, if there is one
RetainedOf(j) == {k \in 1..Len(lic.keys) : lic.keys[k].kid = lic.body.payload[j].id}

\* C20: a key container whose key-type field is the unset value 0 is still
\* decrypted and kept in the result, classified as untyped and as none of the
\* named key types, and is left out only of the default content-keys view.
C20_UntypedRetained ==
    lic.pc = "done" =>
        \A j \in 1..Len(lic.body.payload) :
            (lic.body.payload[j].type = 0
                 /\ unwrap_key(lic.derived.enc_key, lic.body.payload[j], "Content").ok) =>
                /\ j \in lic.decrypted
                /\ RetainedOf(j) # {}
                /\ \A k \in RetainedOf(j) :
                       /\ lic.keys[k].key_type \notin KeyTypes
                       /\ \A c \in 1..Len(content_keys(lic.keys)) :
                              content_keys(lic.keys)[c] # lic.keys[k]

\* ------------------------------------------------------------------------
\* drm/playready-format/src/wrm_header.rs : key-ID conversions
\* ------------------------------------------------------------------------

\* bound: the key IDs of the inputs are the byte ramps i*m + c, c up to this
MaxKidOffset == 40

KID_LEN == 16

\* slice[from..to].reverse() on a 0-indexed array, as a 1-indexed sequence
ReverseRange(a, from, to) ==
    [i \in 1..Len(a) |-> IF i > from /\ i <= to THEN a[from + to + 1 - i] ELSE a[i]]

kid_to_uuid_whole(kid_bytes) == ReverseRange(kid_bytes, 0, 8)

\* uuid[0..4].reverse(); uuid[4..6].reverse(); uuid[6..8].reverse()
kid_to_uuid(kid_bytes) ==
    ReverseRange(ReverseRange(ReverseRange(kid_bytes, 0, 4), 4, 6), 6, 8)

uuid_to_kid(uuid_bytes) == kid_to_uuid(uuid_bytes)

Malformed(msg) == [kind |-> "Malformed", msg |-> msg]

\* Base64 text is a sequence of alphabet positions 0..63, B64_PAD for '='
B64_PAD == 64

\* BASE64.encode: three bytes to four symbols, the last group padded
RECURSIVE Base64Encode(_)
Base64Encode(bytes) ==
    IF Len(bytes) = 0 THEN <<>>
    ELSE IF Len(bytes) = 1
    THEN <<bytes[1] \div 4, (bytes[1] % 4) * 16, B64_PAD, B64_PAD>>
    ELSE IF Len(bytes) = 2
    THEN <<bytes[1] \div 4, (bytes[1] % 4) * 16 + bytes[2] \div 16,
           (bytes[2] % 16) * 4, B64_PAD>>
    ELSE <<bytes[1] \div 4, (bytes[1] % 4) * 16 + bytes[2] \div 16,
           (bytes[2] % 16) * 4 + bytes[3] \div 64, bytes[3] % 64>>
             \o Base64Encode(SubSeq(bytes, 4, Len(bytes)))

\* one group of four symbols: its bytes, or an error for a symbol outside
\* the alphabet, padding in the wrong place or non-zero trailing bits
Base64Group(g, last) ==
    IF \E i \in 1..4 : g[i] \notin 0..B64_PAD THEN Err("symbol")
    ELSE IF g[1] = B64_PAD \/ g[2] = B64_PAD THEN Err("padding")
    ELSE IF g[3] = B64_PAD
    THEN IF ~last \/ g[4] # B64_PAD THEN Err("padding")
         ELSE IF g[2] % 16 # 0 THEN Err("trailing bits")
         ELSE Ok(<<g[1] * 4 + g[2] \div 16>>)
    ELSE IF g[4] = B64_PAD
    THEN IF ~last THEN Err("padding")
         ELSE IF g[3] % 4 # 0 THEN Err("trailing bits")
         ELSE Ok(<<g[1] * 4 + g[2] \div 16, (g[2] % 16) * 16 + g[3] \div 4>>)
    ELSE Ok(<<g[1] * 4 + g[2] \div 16, (g[2] % 16) * 16 + g[3] \div 4,
              (g[3] % 4) * 64 + g[4]>>)

\* BASE64.decode: whole groups of four only
RECURSIVE Base64Decode(_)
Base64Decode(text) ==
    IF Len(text) = 0 THEN Ok(<<>>)
    ELSE IF Len(text) < 4 THEN Err("length")
    ELSE LET head == Base64Group(SubSeq(text, 1, 4), Len(text) = 4)
         IN  IF ~head.ok THEN head
             ELSE LET rest == Base64Decode(SubSeq(text, 5, Len(text)))
                  IN  IF ~rest.ok THEN rest ELSE Ok(head.val \o rest.val)

decode_kid_base64_unswapped(b64) ==
    LET bytes == Base64Decode(b64)
    IN  IF ~bytes.ok THEN Err(Malformed("invalid base64 KID"))
        ELSE IF Len(bytes.val) # KID_LEN THEN Err(Malformed("KID length"))
        ELSE Ok(bytes.val)

\* decode_kid_base64: decode, require 16 bytes, convert once
decode_kid_base64(b64) ==
    LET bytes == Base64Decode(b64)
    IN  IF ~bytes.ok THEN Err(Malformed("invalid base64 KID"))
        ELSE IF Len(bytes.val) # KID_LEN THEN Err(Malformed("KID length"))
        ELSE Ok(kid_to_uuid(bytes.val))

\* --- the key IDs and wire texts the conversions are called on ---
KidInputs ==
    {[i \in 1..KID_LEN |-> (i * m + c) % 256] : m \in 1..3, c \in 0..MaxKidOffset}

WireInputs ==
    {Base64Encode(k) : k \in KidInputs}
        \cup {Base64Encode(SubSeq(k, 1, n)) : k \in {[i \in 1..KID_LEN |-> i]}, n \in 0..15}
        \cup {Base64Encode([i \in 1..17 |-> i]),
              <<0, 1, 2>>,
              <<0, B64_PAD, B64_PAD, B64_PAD>>,
              <<0, 1, B64_PAD, B64_PAD>>,
              <<0, 16, B64_PAD, B64_PAD, 0, 16, 0, 16>>,
              <<0, 16, 0, 65>>}

WrmInit ==
    /\ wrm = NoOp
    /\ ReaderIdle /\ BCertIdle /\ CryptoIdle /\ SignIdle /\ ChainIdle /\ LicenseIdle
    /\ MediaIdle

KidToUuid ==
    /\ wrm = NoOp
    /\ \E k \in KidInputs :
           wrm' = [op |-> "kid_to_uuid", input |-> k, res |-> kid_to_uuid(k), of |-> NoOp]
    /\ UNCHANGED notWrm

\* kid_to_uuid of what kid_to_uuid has just returned
KidToUuidAgain ==
    /\ wrm.op = "kid_to_uuid"
    /\ wrm.of = NoOp
    /\ wrm' = [op |-> "kid_to_uuid", input |-> wrm.res, res |-> kid_to_uuid(wrm.res),
               of |-> wrm]
    /\ UNCHANGED notWrm

\* uuid_to_kid of what kid_to_uuid has just returned
UuidToKid ==
    /\ wrm.op = "kid_to_uuid"
    /\ wrm.of = NoOp
    /\ wrm' = [op |-> "uuid_to_kid", input |-> wrm.res, res |-> uuid_to_kid(wrm.res),
               of |-> wrm]
    /\ UNCHANGED notWrm

DecodeKid ==
    /\ wrm = NoOp
    /\ \E text \in WireInputs :
           wrm' = [op |-> "decode_kid_base64", input |-> text,
                   res |-> decode_kid_base64(text), of |-> NoOp]
    /\ UNCHANGED notWrm

WrmNext == KidToUuid \/ KidToUuidAgain \/ UuidToKid \/ DecodeKid

SpecWrm == WrmInit /\ [][WrmNext]_vars

\* --- C21 ---
\* where each byte of the canonical form comes from (1-indexed)
SwapSource == <<4, 3, 2, 1, 6, 5, 8, 7, 9, 10, 11, 12, 13, 14, 15, 16>>

Swapped(k) == [i \in 1..KID_LEN |-> k[SwapSource[i]]]

\* C21: kid_to_uuid reverses bytes 0-3, 4-5 and 6-7 and leaves bytes 8-15;
\* kid_to_uuid and uuid_to_kid applied to its result give the input back;
\* decode_kid_base64 of the wire text of a 16-byte key ID is that key ID
\* converted exactly once.
C21_KidSwapSelfInverse ==
    /\ (wrm.op = "kid_to_uuid" /\ wrm.of = NoOp) => wrm.res = Swapped(wrm.input)
    /\ (wrm.op \in {"kid_to_uuid", "uuid_to_kid"} /\ wrm.of # NoOp) =>
           wrm.res = wrm.of.input
    /\ wrm.op = "decode_kid_base64" =>
           \A k \in KidInputs :
               wrm.input = Base64Encode(k) => wrm.res = Ok(Swapped(k))

\* the key ID of the test kid_to_uuid_swap, converted and converted back
C21_Witness ==
    /\ wrm.op = "uuid_to_kid"
    /\ wrm.of.input = [i \in 1..KID_LEN |-> i]
    /\ wrm.of.res = <<4, 3, 2, 1, 6, 5, 8, 7, 9, 10, 11, 12, 13, 14, 15, 16>>
    /\ wrm.res = wrm.of.input

\* ------------------------------------------------------------------------
\* vidproxy/src/pipeline.rs : PipelineManager.  The state is a
\* tokio::sync::Mutex<PipelineState>; every step below is what one task does
\* while it holds the lock, or between two acquisitions of it.  Callers are
\* the tasks that call ensure_running(), wait_for_ready() and stop(); the
\* spawned pipeline tasks are numbered in spawn order and the oneshot sender
\* of a task is named by that number.
\* ------------------------------------------------------------------------

\* bound: tasks that call into the PipelineManager concurrently
MaxCallers == 2

\* bound: pipeline tasks spawned in one behaviour
MaxTasks == 2

Callers == 1..MaxCallers

\* enum PipelineState
Idle == [tag |-> "Idle"]

Starting == [tag |-> "Starting"]

Running(stop_tx) == [tag |-> "Running", stop_tx |-> stop_tx]

Stopping == [tag |-> "Stopping"]

\* PipelineManager::new, with the stream-info channel holding a value or not
NewPipelineManager(info) ==
    [state    |-> Idle,
     info     |-> info,                         \* stream_info_rx holds Some(..)
     segments |-> FALSE,                        \* segment_count() > 0
     refresh  |-> FALSE,                        \* refresh_tx.send(true) was made
     tasks    |-> <<>>,
     calls    |-> [c \in Callers |-> NoOp],
     ret      |-> [c \in Callers |-> NoOp]]

\* `*state = new` under the lock: the value replaced is dropped, and dropping
\* the stop_tx of a Running state wakes the stop listener of its task just
\* as a send does (let _ = stop_rx.await; shutdown_tx.send(true))
Shutdown(tasks, t) == [tasks EXCEPT ![t].shutdown = TRUE]

Replace(m, new) ==
    [m EXCEPT !.state = new,
              !.tasks = IF m.state.tag = "Running" /\ new # m.state
                        THEN Shutdown(@, m.state.stop_tx) ELSE @]

\* the call of caller c returns res
Return(m, c, op, res) ==
    [m EXCEPT !.calls[c] = NoOp, !.ret[c] = [op |-> op, res |-> res]]

At(c, op, pc) == pm.calls[c].op = op /\ pm.calls[c].pc = pc

Goto(m, c, op, pc) == [m EXCEPT !.calls[c] = [op |-> op, pc |-> pc]]

\* ensure_running: the state check under the lock
EnsureRunning(c) ==
    /\ pm.calls[c] = NoOp
    /\ pm' = IF pm.state.tag \in {"Running", "Starting"}
             THEN Return(pm, c, "ensure_running", "Ok")
             ELSE IF pm.state.tag = "Stopping"
             THEN Return(pm, c, "ensure_running", "Err: Pipeline is stopping")
             ELSE Goto(pm, c, "ensure_running", "start")
    /\ UNCHANGED notPipeline

\* start: Idle -> Starting under the lock, or return
StartLock(c) ==
    /\ At(c, "ensure_running", "start")
    /\ pm' = IF pm.state # Idle
             THEN Return(pm, c, "ensure_running", "Ok")
             ELSE Goto([pm EXCEPT !.state = Starting], c, "ensure_running", "spawn")
    /\ UNCHANGED notPipeline

\* start: stream info, clearing of the segments, tokio::spawn of the task
StartSpawn(c) ==
    /\ At(c, "ensure_running", "spawn")
    /\ IF ~pm.info
       THEN pm' = Return(pm, c, "ensure_running", "Err: No stream info available")
       ELSE /\ Len(pm.tasks) < MaxTasks
            /\ pm' = [pm EXCEPT !.segments = FALSE,
                                !.tasks = Append(@, [pc |-> "running", shutdown |-> FALSE,
                                                     auth_error |-> FALSE]),
                                !.calls[c] = [op |-> "ensure_running", pc |-> "store",
                                              stop_tx |-> Len(pm.tasks) + 1]]
    /\ UNCHANGED notPipeline

\* start: *state = Running { stop_tx } under the lock
StartStore(c) ==
    /\ At(c, "ensure_running", "store")
    /\ pm' = Return(Replace(pm, Running(pm.calls[c].stop_tx)), c, "ensure_running", "Ok")
    /\ UNCHANGED notPipeline

\* the task runs: a segment is written
PipelineSegment(t) ==
    /\ t <= Len(pm.tasks)
    /\ pm.tasks[t].pc = "running"
    /\ ~pm.segments
    /\ pm' = [pm EXCEPT !.segments = TRUE]
    /\ UNCHANGED notPipeline

\* the key fetch fails, or run_remux_pipeline returns or panics: on its own
\* at any time, or because the shutdown signal was seen
PipelineEnds(t) ==
    /\ t <= Len(pm.tasks)
    /\ pm.tasks[t].pc = "running"
    /\ \E auth_error \in BOOLEAN :
           pm' = [pm EXCEPT !.tasks[t].pc = "reset", !.tasks[t].auth_error = auth_error]
    /\ UNCHANGED notPipeline

\* reset_state(auth_error) under the lock, then the task returns
ResetState(t) ==
    /\ t <= Len(pm.tasks)
    /\ pm.tasks[t].pc = "reset"
    /\ pm' = IF pm.state.tag = "Running"
             THEN [Replace(pm, Idle) EXCEPT !.tasks[t].pc = "ended",
                                            !.refresh = @ \/ pm.tasks[t].auth_error]
             ELSE [pm EXCEPT !.tasks[t].pc = "ended"]
    /\ UNCHANGED notPipeline

\* stop: mem::replace(state, Stopping) under the lock, undone unless Running
StopTake(c) ==
    /\ pm.calls[c] = NoOp
    /\ pm' = IF pm.state.tag = "Running"
             THEN [pm EXCEPT !.state = Stopping,
                             !.calls[c] = [op |-> "stop", pc |-> "send",
                                           stop_tx |-> pm.state.stop_tx]]
             ELSE Goto(pm, c, "stop", "idle")
    /\ UNCHANGED notPipeline

\* stop: tx.send(()) and the sleep
StopSend(c) ==
    /\ At(c, "stop", "send")
    /\ pm' = Goto([pm EXCEPT !.tasks = Shutdown(@, pm.calls[c].stop_tx)], c, "stop", "idle")
    /\ UNCHANGED notPipeline

\* stop: *state = Idle under the lock
StopIdle(c) ==
    /\ At(c, "stop", "idle")
    /\ pm' = Return(Replace(pm, Idle), c, "stop", "done")
    /\ UNCHANGED notPipeline

\* wait_for_ready: one round of the loop up to the deadline test
WaitForReady(c) ==
    /\ pm.calls[c] = NoOp \/ At(c, "wait_for_ready", "sleep")
    /\ \/ pm.segments /\ pm' = Return(pm, c, "wait_for_ready", "Ok")
       \/ ~pm.segments /\ pm' = Return(pm, c, "wait_for_ready",
                                       "Err: Timeout waiting for first segment")
       \/ ~pm.segments /\ pm' = Goto(pm, c, "wait_for_ready", "state")
    /\ UNCHANGED notPipeline

\* wait_for_ready: the state check under the lock
WaitForReadyState(c) ==
    /\ At(c, "wait_for_ready", "state")
    /\ pm' = IF pm.state = Idle
             THEN Return(pm, c, "wait_for_ready", "Err: Pipeline failed to start")
             ELSE Goto(pm, c, "wait_for_ready", "sleep")
    /\ UNCHANGED notPipeline

\* the coordinator publishes stream info on the watch channel
StreamInfoSent ==
    /\ ~pm.info
    /\ pm' = [pm EXCEPT !.info = TRUE]
    /\ UNCHANGED notPipeline

PipelineInit ==
    /\ pm \in {NewPipelineManager(info) : info \in BOOLEAN}
    /\ DrmIdle /\ WallClockIdle /\ AudioClockIdle

PipelineNext ==
    \/ \E c \in Callers :
           \/ EnsureRunning(c)
           \/ StartLock(c)
           \/ StartSpawn(c)
           \/ StartStore(c)
           \/ StopTake(c)
           \/ StopSend(c)
           \/ StopIdle(c)
           \/ WaitForReady(c)
           \/ WaitForReadyState(c)
    \/ \E t \in 1..MaxTasks :
           \/ PipelineSegment(t)
           \/ PipelineEnds(t)
           \/ ResetState(t)
    \/ StreamInfoSent

SpecPipeline == PipelineInit /\ [][PipelineNext]_vars

NoCallInFlight == \A c \in Callers : pm.calls[c] = NoOp

TaskAlive(t) == pm.tasks[t].pc # "ended"

\* C25: a pipeline task that ends on its own resets the state to Idle under
\* every interleaving with start(), also when it ends before start() has
\* stored Running: with no call in progress the state is never Running while
\* no pipeline task is alive
C25_RunningHasLiveTask ==
    (NoCallInFlight /\ pm.state.tag = "Running") =>
        \E t \in 1..Len(pm.tasks) : TaskAlive(t)

\* the task ended, not signalled, while start() had not yet stored Running
C25_EndedBeforeStore ==
    \E c \in Callers :
        /\ At(c, "ensure_running", "store")
        /\ pm.state = Starting
        /\ pm.tasks[pm.calls[c].stop_tx].pc = "ended"
        /\ ~pm.tasks[pm.calls[c].stop_tx].shutdown

\* C26: Starting is transient: once a call of ensure_running() has returned
\* and no call is in progress the state is Running or Idle; a start that
\* fails for missing stream info leaves Idle
C26_StartingIsTransient ==
    (NoCallInFlight /\ \E c \in Callers : pm.ret[c].op = "ensure_running") =>
        pm.state.tag \in {"Running", "Idle"}

\* ensure_running() returned the missing-stream-info error
C26_NoStreamInfo ==
    /\ NoCallInFlight
    /\ \E c \in Callers : pm.ret[c] = [op |-> "ensure_running",
                                       res |-> "Err: No stream info available"]

\* ------------------------------------------------------------------------
\* ffmpeg/types/src/clock.rs : WallClock.  Instants and Durations are whole
\* ticks of one wall clock `now` that only moves forward.
\* ------------------------------------------------------------------------

\* bound: wall time runs from 0 to MaxTime ticks
MaxTime == 3

\* bound: largest position passed to reset_to
MaxPosition == 1

\* Instant::duration_since / Instant::elapsed: zero when `earlier` is later
duration_since(instant, earlier) == IF instant >= earlier THEN instant - earlier ELSE 0

\* WallClock::new at time `now`
NewWallClock(now) ==
    [start_instant |-> now, offset |-> 0, paused_at |-> None, paused_duration |-> 0]

pause_restamp(c, now) == [c EXCEPT !.paused_at = Some(now)]

\* WallClock::pause
pause(c, now) ==
    IF ~c.paused_at.some THEN [c EXCEPT !.paused_at = Some(now)] ELSE c

\* WallClock::resume
resume(c, now) ==
    IF c.paused_at.some
    THEN [c EXCEPT !.paused_at = None,
                   !.paused_duration = @ + duration_since(now, c.paused_at.val)]
    ELSE c

\* the value position() computes from the four values it has read;
\* Duration subtraction panics when the result would be negative
position_of(start, offset, paused_duration, paused_at, now) ==
    LET elapsed == IF paused_at.some THEN duration_since(paused_at.val, start)
                   ELSE duration_since(now, start)
    IN  IF offset + elapsed >= paused_duration
        THEN Ok(offset + elapsed - paused_duration)
        ELSE Err("overflow when subtracting durations")

\* WallClock::position
WallClock_position(c, now) ==
    position_of(c.start_instant, c.offset, c.paused_duration, c.paused_at, now)

\* WallClock::reset_to
WallClock_reset_to(c, position, now) ==
    [start_instant |-> now, offset |-> position, paused_at |-> None, paused_duration |-> 0]

\* --- one thread uses the clock: every call runs to its end ---

\* a stopwatch kept beside the clock: the position at its last start or stop,
\* whether it runs, and when it was last started
StopwatchPosition(ref, now) == ref.pos + (IF ref.running THEN now - ref.at ELSE 0)

WallClockInit ==
    /\ wc = [clock |-> NewWallClock(0), now |-> 0,
             ref |-> [pos |-> 0, running |-> TRUE, at |-> 0, pauses |-> 0, resumed |-> FALSE],
             last |-> NoOp]
    /\ DrmIdle /\ PipelineIdle /\ AudioClockIdle

Pause ==
    /\ wc' = [wc EXCEPT !.clock = pause(@, wc.now),
                        !.ref = [@ EXCEPT !.pos = StopwatchPosition(wc.ref, wc.now),
                                          !.running = FALSE,
                                          !.at = IF wc.ref.running THEN wc.now ELSE @,
                                          !.pauses = Min(2, @ + 1)]]
    /\ UNCHANGED notWallClock

Resume ==
    /\ wc' = [wc EXCEPT !.clock = resume(@, wc.now),
                        !.ref = [@ EXCEPT !.pos = StopwatchPosition(wc.ref, wc.now),
                                          !.running = TRUE,
                                          !.at = wc.now,
                                          !.pauses = 0,
                                          !.resumed = @ \/ ~wc.ref.running]]
    /\ UNCHANGED notWallClock

ResetTo ==
    /\ \E position \in 0..MaxPosition :
           wc' = [wc EXCEPT !.clock = WallClock_reset_to(@, position, wc.now),
                            !.ref = [pos |-> position, running |-> TRUE, at |-> wc.now,
                                     pauses |-> 0, resumed |-> FALSE]]
    /\ UNCHANGED notWallClock

Position ==
    /\ wc' = [wc EXCEPT !.last = [res |-> WallClock_position(wc.clock, wc.now),
                                  now |-> wc.now,
                                  ref |-> wc.ref]]
    /\ UNCHANGED notWallClock

Tick ==
    /\ wc.now < MaxTime
    /\ wc' = [wc EXCEPT !.now = @ + 1]
    /\ UNCHANGED notWallClock

WallClockNext == Pause \/ Resume \/ ResetTo \/ Position \/ Tick

SpecWallClock == WallClockInit /\ [][WallClockNext]_vars

\* C28: while the clock is paused position() returns the same value however
\* much wall time passes, a second pause() does not change it, and after
\* resume() the position continues from the paused value without the time
\* spent paused: position() is the reading of a stopwatch
C28_PauseHoldsPosition ==
    wc.last # NoOp =>
        /\ wc.last.res = Ok(StopwatchPosition(wc.last.ref, wc.last.now))
        /\ ~wc.last.ref.running => wc.last.res.val = wc.last.ref.pos

\* position() called while paused, after a second pause(), with wall time
\* gone by since the first
C28_Witness ==
    /\ wc.last # NoOp
    /\ ~wc.last.ref.running
    /\ wc.last.ref.pauses = 2
    /\ wc.last.now > wc.last.ref.at
    /\ wc.last.ref.pos > 0
    /\ wc.last.res = Ok(wc.last.ref.pos)

\* position() called after a resume(), with time gone by while paused and
\* again after the resume
C28_ResumedWitness ==
    /\ wc.last # NoOp
    /\ wc.last.ref.running
    /\ wc.last.ref.resumed
    /\ wc.clock.paused_duration > 0
    /\ wc.last.now > wc.last.ref.at
    /\ wc.last.res.ok
    /\ wc.last.res.val < wc.last.now

\* --- several threads use the clock: one step per lock acquisition ---

\* bound: threads that call into the clock concurrently
MaxThreads == 2

Threads == 1..MaxThreads

\* thread t is at step pc of a call of op
In(t, op, pc) == wc.th[t].op = op /\ wc.th[t].pc = pc

\* the paused_at mutex is free (resume() holds it across its two steps)
PausedAtFree == wc.held = 0

ThreadsInit ==
    /\ wc = [clock |-> NewWallClock(0), now |-> 0, held |-> 0,
             th |-> [t \in Threads |-> NoOp]]
    /\ DrmIdle /\ PipelineIdle /\ AudioClockIdle

\* pause(): all of it under the paused_at lock (a call on a paused clock
\* changes nothing)
PauseCall(t) ==
    /\ wc.th[t] = NoOp
    /\ PausedAtFree
    /\ ~wc.clock.paused_at.some
    /\ wc' = [wc EXCEPT !.clock = pause(@, wc.now)]
    /\ UNCHANGED notWallClock

\* resume(): paused_at.take() under the paused_at lock, which stays held (a
\* call on a running clock changes nothing)
ResumeTake(t) ==
    /\ wc.th[t] = NoOp
    /\ PausedAtFree
    /\ wc.clock.paused_at.some
    /\ wc' = [wc EXCEPT !.clock.paused_at = None,
                        !.held = t,
                        !.th[t] = [op |-> "resume", pc |-> "add",
                                   pause_start |-> wc.clock.paused_at.val]]
    /\ UNCHANGED notWallClock

\* resume(): *paused_duration += pause_start.elapsed(), both locks released
ResumeAdd(t) ==
    /\ In(t, "resume", "add")
    /\ wc' = [wc EXCEPT !.clock.paused_duration =
                            @ + duration_since(wc.now, wc.th[t].pause_start),
                        !.held = 0,
                        !.th[t] = NoOp]
    /\ UNCHANGED notWallClock

\* position(): let start = *self.start_instant.lock().unwrap()
PositionStart(t) ==
    /\ wc.th[t] = NoOp
    /\ wc' = [wc EXCEPT !.th[t] = [op |-> "position", pc |-> "offset",
                                   start |-> wc.clock.start_instant]]
    /\ UNCHANGED notWallClock

\* position(): let offset = *self.offset.lock().unwrap()
PositionOffset(t) ==
    /\ In(t, "position", "offset")
    /\ wc' = [wc EXCEPT !.th[t] = [op |-> "position", pc |-> "paused_duration",
                                   start |-> wc.th[t].start,
                                   offset |-> wc.clock.offset]]
    /\ UNCHANGED notWallClock

\* position(): let paused_duration = *self.paused_duration.lock().unwrap()
PositionPausedDuration(t) ==
    /\ In(t, "position", "paused_duration")
    /\ wc' = [wc EXCEPT !.th[t] = [op |-> "position", pc |-> "paused_at",
                                   start |-> wc.th[t].start,
                                   offset |-> wc.th[t].offset,
                                   paused_duration |-> wc.clock.paused_duration]]
    /\ UNCHANGED notWallClock

\* position(): let paused_at = *self.paused_at.lock().unwrap()
PositionPausedAt(t) ==
    /\ In(t, "position", "paused_at")
    /\ PausedAtFree
    /\ wc' = [wc EXCEPT !.th[t] = [op |-> "position", pc |-> "return",
                                   start |-> wc.th[t].start,
                                   offset |-> wc.th[t].offset,
                                   paused_duration |-> wc.th[t].paused_duration,
                                   paused_at |-> wc.clock.paused_at]]
    /\ UNCHANGED notWallClock

\* position(): the arithmetic on the four values; a panic ends the thread
PositionReturn(t) ==
    /\ In(t, "position", "return")
    /\ \E res \in {position_of(wc.th[t].start, wc.th[t].offset, wc.th[t].paused_duration,
                               wc.th[t].paused_at, wc.now)} :
           wc' = [wc EXCEPT !.th[t] = IF res.ok THEN NoOp
                                      ELSE [op |-> "position", pc |-> "panicked"]]
    /\ UNCHANGED notWallClock

\* reset_to(): *self.start_instant.lock().unwrap() = Instant::now()
ResetStart(t) ==
    /\ wc.th[t] = NoOp
    /\ \E position \in 0..MaxPosition :
           wc' = [wc EXCEPT !.clock.start_instant = wc.now,
                            !.th[t] = [op |-> "reset_to", pc |-> "offset",
                                       position |-> position]]
    /\ UNCHANGED notWallClock

\* reset_to(): *self.offset.lock().unwrap() = position
ResetOffset(t) ==
    /\ In(t, "reset_to", "offset")
    /\ wc' = [wc EXCEPT !.clock.offset = wc.th[t].position,
                        !.th[t] = [op |-> "reset_to", pc |-> "paused_at"]]
    /\ UNCHANGED notWallClock

\* reset_to(): *self.paused_at.lock().unwrap() = None
ResetPausedAt(t) ==
    /\ In(t, "reset_to", "paused_at")
    /\ PausedAtFree
    /\ wc' = [wc EXCEPT !.clock.paused_at = None,
                        !.th[t] = [op |-> "reset_to", pc |-> "paused_duration"]]
    /\ UNCHANGED notWallClock

\* reset_to(): *self.paused_duration.lock().unwrap() = Duration::ZERO
ResetPausedDuration(t) ==
    /\ In(t, "reset_to", "paused_duration")
    /\ wc' = [wc EXCEPT !.clock.paused_duration = 0, !.th[t] = NoOp]
    /\ UNCHANGED notWallClock

\* wall time passes
ThreadsTick ==
    /\ wc.now < MaxTime
    /\ wc' = [wc EXCEPT !.now = @ + 1]
    /\ UNCHANGED notWallClock

ThreadsNext ==
    \/ \E t \in Threads :
           \/ PauseCall(t)
           \/ ResumeTake(t)
           \/ ResumeAdd(t)
           \/ PositionStart(t)
           \/ PositionOffset(t)
           \/ PositionPausedDuration(t)
           \/ PositionPausedAt(t)
           \/ PositionReturn(t)
           \/ ResetStart(t)
           \/ ResetOffset(t)
           \/ ResetPausedAt(t)
           \/ ResetPausedDuration(t)
    \/ ThreadsTick

SpecWallClockThreads == ThreadsInit /\ [][ThreadsNext]_vars

\* C29: position() never underflows: under every interleaving of pause(),
\* resume(), reset_to() and position() the values a position() call has read
\* satisfy offset + elapsed >= paused_duration, and no call panics
C29_PositionNeverUnderflows ==
    \A t \in Threads :
        /\ wc.th[t] # [op |-> "position", pc |-> "panicked"]
        /\ In(t, "position", "return") =>
               position_of(wc.th[t].start, wc.th[t].offset, wc.th[t].paused_duration,
                           wc.th[t].paused_at, wc.now).ok

\* a position() call that panicked
C29_Panicked == \E t \in Threads : wc.th[t] = [op |-> "position", pc |-> "panicked"]

\* ------------------------------------------------------------------------
\* ffmpeg/types/src/clock.rs : AudioClock.  samples_consumed and
\* finished_at_samples are atomics, finished_at_instant is behind a mutex;
\* every step below is one atomic access or one lock acquisition.
\* ------------------------------------------------------------------------

\* bound: samples_consumed stays at or below MaxSamples
MaxSamples == 4

\* u64::MAX, the "not finished" value of finished_at_samples (reduced scale)
U64_MAX == 2147483647

\* AudioClock::new(sample_rate, channels): stereo, one audio frame per tick
channels == 2

sample_rate == 1

NewAudioClock ==
    [samples_consumed |-> 0, finished_at_samples |-> U64_MAX, finished_at_instant |-> None]

\* AudioClock::samples_to_duration
samples_to_duration(samples) == (samples \div channels) \div sample_rate

\* the sample count reset_to stores for a position
duration_to_samples(position) == (position * sample_rate) * channels

AudioClockInit ==
    /\ ac = [clock |-> NewAudioClock, now |-> 0, marked_at |-> 0 - 1,
             th |-> [t \in Threads |-> NoOp], last |-> NoOp]
    /\ DrmIdle /\ PipelineIdle /\ WallClockIdle

Audio(t, op, pc) == ac.th[t].op = op /\ ac.th[t].pc = pc

\* add_samples: samples_consumed.fetch_add(count)
AddSamples(t) ==
    /\ ac.th[t] = NoOp
    /\ ac.clock.samples_consumed + channels <= MaxSamples
    /\ ac' = [ac EXCEPT !.clock.samples_consumed = @ + channels]
    /\ UNCHANGED notAudioClock

\* mark_finished: let current_samples = samples_consumed.load()
MarkFinishedLoad(t) ==
    /\ ac.th[t] = NoOp
    /\ ac' = [ac EXCEPT !.th[t] = [op |-> "mark_finished", pc |-> "compare_exchange",
                                   current_samples |-> ac.clock.samples_consumed]]
    /\ UNCHANGED notAudioClock

\* mark_finished: finished_at_samples.compare_exchange(u64::MAX, current_samples)
MarkFinishedExchange(t) ==
    /\ Audio(t, "mark_finished", "compare_exchange")
    /\ ac' = IF ac.clock.finished_at_samples = U64_MAX
             THEN [ac EXCEPT !.clock.finished_at_samples = ac.th[t].current_samples,
                             !.marked_at = ac.now,
                             !.th[t] = [op |-> "mark_finished", pc |-> "instant"]]
             ELSE [ac EXCEPT !.th[t] = [op |-> "mark_finished", pc |-> "instant"]]
    /\ UNCHANGED notAudioClock

\* mark_finished: if guard.is_none() { *guard = Some(Instant::now()) }
MarkFinishedInstant(t) ==
    /\ Audio(t, "mark_finished", "instant")
    /\ ac' = [ac EXCEPT !.clock.finished_at_instant = IF @.some THEN @ ELSE Some(ac.now),
                        !.th[t] = NoOp]
    /\ UNCHANGED notAudioClock

\* reset_to: samples_consumed.store(samples)
AudioResetSamples(t) ==
    /\ ac.th[t] = NoOp
    /\ \E position \in 0..MaxPosition :
           ac' = [ac EXCEPT !.clock.samples_consumed = duration_to_samples(position),
                            !.th[t] = [op |-> "reset_to", pc |-> "finished"]]
    /\ UNCHANGED notAudioClock

\* reset_to: finished_at_samples.store(u64::MAX)
AudioResetFinished(t) ==
    /\ Audio(t, "reset_to", "finished")
    /\ ac' = [ac EXCEPT !.clock.finished_at_samples = U64_MAX,
                        !.th[t] = [op |-> "reset_to", pc |-> "instant"]]
    /\ UNCHANGED notAudioClock

\* reset_to: *finished_at_instant.lock().unwrap() = None
AudioResetInstant(t) ==
    /\ Audio(t, "reset_to", "instant")
    /\ ac' = [ac EXCEPT !.clock.finished_at_instant = None, !.th[t] = NoOp]
    /\ UNCHANGED notAudioClock

\* position: let finished_samples = finished_at_samples.load()
AudioPositionFinished(t) ==
    /\ ac.th[t] = NoOp
    /\ ac' = [ac EXCEPT !.th[t] =
                 IF ac.clock.finished_at_samples # U64_MAX
                 THEN [op |-> "position", pc |-> "instant",
                       finished_samples |-> ac.clock.finished_at_samples]
                 ELSE [op |-> "position", pc |-> "samples"]]
    /\ UNCHANGED notAudioClock

\* position: under the lock, position_at_finish + elapsed_since_finish is
\* returned if the instant is there
AudioPositionInstant(t) ==
    /\ Audio(t, "position", "instant")
    /\ ac' = IF ac.clock.finished_at_instant.some
             THEN [ac EXCEPT !.th[t] = NoOp,
                             !.last = [extrapolated |-> TRUE,
                                       val |-> samples_to_duration(ac.th[t].finished_samples)
                                                 + duration_since(ac.now,
                                                      ac.clock.finished_at_instant.val)]]
             ELSE [ac EXCEPT !.th[t] = [op |-> "position", pc |-> "samples"]]
    /\ UNCHANGED notAudioClock

\* position: samples_to_duration(samples_consumed.load()) is returned
AudioPositionSamples(t) ==
    /\ Audio(t, "position", "samples")
    /\ ac' = [ac EXCEPT !.th[t] = NoOp,
                        !.last = [extrapolated |-> FALSE,
                                  val |-> samples_to_duration(ac.clock.samples_consumed)]]
    /\ UNCHANGED notAudioClock

\* wall time passes
AudioTick ==
    /\ ac.now < MaxTime
    /\ ac' = [ac EXCEPT !.now = @ + 1]
    /\ UNCHANGED notAudioClock

AudioClockNext ==
    \/ \E t \in Threads :
           \/ AddSamples(t)
           \/ MarkFinishedLoad(t)
           \/ MarkFinishedExchange(t)
           \/ MarkFinishedInstant(t)
           \/ AudioResetSamples(t)
           \/ AudioResetFinished(t)
           \/ AudioResetInstant(t)
           \/ AudioPositionFinished(t)
           \/ AudioPositionInstant(t)
           \/ AudioPositionSamples(t)
    \/ AudioTick

SpecAudioClock == AudioClockInit /\ [][AudioClockNext]_vars

AudioQuiescent == \A t \in Threads : ac.th[t] = NoOp

\* C30: whenever no call is in progress finished_at_samples is set (not
\* u64::MAX) exactly when finished_at_instant is Some, under concurrent
\* mark_finished() and reset_to(), so position() never extrapolates from the
\* instant of a mark_finished() made before a reset_to()
C30_FinishedStateConsistent ==
    AudioQuiescent =>
        /\ (ac.clock.finished_at_samples # U64_MAX) <=> ac.clock.finished_at_instant.some
        /\ ac.clock.finished_at_instant.some =>
               ac.clock.finished_at_instant.val >= ac.marked_at

\* no call in progress, the sample count of the latest mark_finished() is in
\* place and the instant is that of an earlier one
C30_StaleInstant ==
    /\ AudioQuiescent
    /\ ac.clock.finished_at_samples # U64_MAX
    /\ ac.clock.finished_at_instant.some
    /\ ac.clock.finished_at_instant.val < ac.marked_at

\* no call in progress and an instant without a finished sample count
C30_InstantWithoutSamples ==
    /\ AudioQuiescent
    /\ ac.clock.finished_at_samples = U64_MAX
    /\ ac.clock.finished_at_instant.some

=============================================================================
